---- MODULE Spec2Model ----
(***************************************************************************)
(* A model of the EnergyMap.AI analytical pipeline (src/pipeline) and of   *)
(* the job bookkeeping of its HTTP backend (src/frontend/backend/app).     *)
(*                                                                         *)
(* SpecScenario : ScenarioPipeline.run, apply_intervention and             *)
(*                calculate_impacts over a bounded baseline dataset, with  *)
(*                the files run() writes.                                  *)
(* SpecRun      : one execution of run_all.main, stage by stage, with the  *)
(*                output files it rewrites and the ways it can fail.       *)
(* SpecApi      : the backend's recalculation jobs, their pipeline         *)
(*                subprocesses and the readers of the job status.          *)
(* SpecScoring, SpecDegenerate : compute_scores.                           *)
(* SpecNormalize : normalize_to_ten.                                       *)
(* SpecDemand   : DemandForecastPipeline.run.                              *)
(* SpecForecast : _forecast_demand over a set of target years.             *)
(*                                                                         *)
(* Numbers.  The code works on floats; the model works on exact rationals  *)
(* held as integers in a fixed unit.  Populations, demands and peak loads  *)
(* are held in units of 1/Scale, where Scale = 10^MaxInterventions, so     *)
(* that every factor the interventions apply (1.5, 1.3, 1 + rate with the  *)
(* rate in tenths) is an exact integer operation for as many               *)
(* interventions as a scenario may hold.                                   *)
(***************************************************************************)
EXTENDS Integers, Sequences, FiniteSets, TLC

\* ------------------------------------------------------------------ bounds
MaxClusters == 3        \* rows of the baseline dataset
MaxInterventions == 2   \* interventions of one scenario definition
MaxCount == 2           \* the "count" parameter of an intervention

RECURSIVE Pow10(_)
Pow10(k) == IF k = 0 THEN 1 ELSE 10 * Pow10(k - 1)

RECURSIVE Fact(_)
Fact(k) == IF k <= 1 THEN 1 ELSE k * Fact(k - 1)

\* Unit of populations, demands and peak loads: 1/Scale.
Scale == Pow10(MaxInterventions)
\* Unit of solar_capacity_mw: 1/SolarDen MW (capacity / len(result) is exact).
SolarDen == Fact(MaxClusters)

Max2(a, b) == IF a >= b THEN a ELSE b
Min2(a, b) == IF a <= b THEN a ELSE b

RECURSIVE SumOver(_, _, _)
\* Sum of f[i] over the labels in S (pandas Series.sum over a selection).
SumOver(f, S, acc) ==
    IF S = {} THEN acc
    ELSE LET i == CHOOSE x \in S : TRUE
         IN SumOver(f, S \ {i}, acc + f[i])

\* ------------------------------------------------- demand stage (baseline)
\* demand.py _status_from_need
StatusNoneMin == 60
StatusPartialMin == 40
status_from_need(score) ==
    IF score >= StatusNoneMin THEN "none"
    ELSE IF score >= StatusPartialMin THEN "partial"
    ELSE "electrified"

\* demand.py household_demand (kWh per household and year)
household_demand(status, need) ==
    IF status = "electrified" THEN 2000 - need * 5
    ELSE IF status = "partial" THEN 800
    ELSE 450

\* demand.py: households = population * 0.3;
\* baseline_demand_mwh_year = households * demand_per_household / 1000.
\* The result is in units of 1/Scale MWh.
baseline_demand_mwh_year(pop, status, need) ==
    (((pop * 3 * household_demand(status, need)) \div 100) * Scale) \div 100

\* scoring.py estimate_cost, in USD (households = population * 0.3).
estimate_cost(solution, pop, dist) ==
    LET households10 == pop * 3     \* tenths of a household
    IN IF solution = "grid_extension"
         THEN dist * 1000 + (households10 * 200) \div 10
       ELSE IF solution \in {"mini_grid_hybrid", "mini_grid_solar", "mini_grid"}
         THEN (households10 * 5 * 1500) \div 100 + (households10 * 300) \div 10
       ELSE (households10 * 500) \div 10

\* One row of the demand-forecast GeoJSON, as the scenario stage reads it.
\* pop is in persons, need is energy_need_score, score is priority_score.
DemandRow(id, score, dist, need, solution, pop) ==
    LET st == status_from_need(need)
    IN [ cluster_id               |-> id,
         priority_score           |-> score,
         dist_to_power_km         |-> dist,
         electrification_status   |-> st,
         recommended_solution     |-> solution,
         estimated_population     |-> pop * Scale,
         baseline_demand_mwh_year |-> baseline_demand_mwh_year(pop, st, need),
         \* peak = demand * 1000 / (8760 * load_factor): held in units of
         \* that constant factor, so it starts numerically equal to demand.
         baseline_peak_demand_kw  |-> baseline_demand_mwh_year(pop, st, need),
         estimated_cost_usd       |-> estimate_cost(solution, pop, dist),
         solar_capacity_mw        |-> << >>,     \* column absent
         scenario_tag             |-> "" ]       \* column absent

\* The clusters the bounded baselines are built from.  They cover: a tie on
\* priority_score (clusters 1 and 4), a tie on dist_to_power_km (clusters 2
\* and 4), and every combination of "solution mentions mini" and "status is
\* none".  Clusters 1 to 3 are the dataset of the end-to-end example: scores
\* [80, 50, 20], grid distances [2, 10, 40].
Clusters ==
    { DemandRow(1, 80, 2, 70, "grid_extension", 1000),
      DemandRow(2, 50, 10, 50, "mini_grid_hybrid", 2000),
      DemandRow(3, 20, 40, 20, "standalone_solar", 3000),
      DemandRow(4, 80, 10, 60, "mini_grid_solar", 1000) }

\* Every dataset of at most MaxClusters rows, in any row order; cluster_id
\* is unique within a dataset.
Baselines ==
    { b \in UNION { [1..n -> Clusters] : n \in 0..MaxClusters } :
        \A i, j \in DOMAIN b : i # j => b[i].cluster_id # b[j].cluster_id }

\* ------------------------------------------------------------ scenario.py
Targets == {"top_priority", "nearest_grid", "other"}
Counts == {0, 1, MaxCount}
PopulationRate10 == {1}    \* rate, in tenths: 0.1 is the default of population_growth
DemandRate10 == {2}        \* rate, in tenths: 0.2 is the default of demand_increase
CapacitiesMW == {50}       \* capacity_mw default

Interventions ==
       [type : {"grid_extension"}, count : Counts, target : Targets]
  \cup [type : {"mini_grid_deployment"}, count : Counts]
  \cup [type : {"population_growth"}, rate10 : PopulationRate10]
  \cup [type : {"demand_increase"}, rate10 : DemandRate10]
  \cup [type : {"solar_capacity_addition"}, capacity_mw : CapacitiesMW]
  \cup [type : {"unknown"}]

NoIntervention == [type |-> "-"]

Labels(data) == DOMAIN data

\* str.contains("mini") over the values recommended_solution can take.
ContainsMini(solution) ==
    solution \in {"mini_grid_hybrid", "mini_grid_solar", "mini_grid"}

\* DataFrame.nlargest(n, col) restricted to the rows `labels`: the n rows
\* with the largest values; keep="first" puts the earlier row first among
\* equal values.  Returns the labels of the selected rows (targets.index).
RECURSIVE NLargestLast(_, _, _, _)
NLargestLast(data, labels, col, n) ==
    IF n <= 0 \/ labels = {} THEN {}
    ELSE LET best == CHOOSE i \in labels : \A j \in labels :
                        \/ data[i][col] > data[j][col]
                        \/ data[i][col] = data[j][col] /\ i >= j
         IN {best} \cup NLargestLast(data, labels \ {best}, col, n - 1)

RECURSIVE NLargestFirst(_, _, _, _)
NLargestFirst(data, labels, col, n) ==
    IF n <= 0 \/ labels = {} THEN {}
    ELSE LET best == CHOOSE i \in labels : \A j \in labels :
                        \/ data[i][col] > data[j][col]
                        \/ data[i][col] = data[j][col] /\ i <= j
         IN {best} \cup NLargestFirst(data, labels \ {best}, col, n - 1)

nlargest(data, labels, col, n) == NLargestFirst(data, labels, col, n)

\* DataFrame.nsmallest(n, col), keep="first".
RECURSIVE NSmallestFirst(_, _, _, _)
NSmallestFirst(data, labels, col, n) ==
    IF n <= 0 \/ labels = {} THEN {}
    ELSE LET best == CHOOSE i \in labels : \A j \in labels :
                        \/ data[i][col] < data[j][col]
                        \/ data[i][col] = data[j][col] /\ i <= j
         IN {best} \cup NSmallestFirst(data, labels \ {best}, col, n - 1)

nsmallest(data, labels, col, n) == NSmallestFirst(data, labels, col, n)

\* DataFrame.head(n) for n >= 0: the first n rows.
head(data, n) == { i \in Labels(data) : i <= n }

\* scenario.py 82-85: rows whose solution mentions "mini" or whose status
\* is "none".
suitable(data) ==
    { i \in Labels(data) :
        \/ ContainsMini(data[i].recommended_solution)
        \/ data[i].electrification_status = "none" }

GridHeadTargets(data, iv) == head(data, iv.count)

\* scenario.py 65-74: the rows grid_extension selects.
GridExtensionTargets(data, iv) ==
    IF iv.target = "top_priority"
      THEN nlargest(data, Labels(data), "priority_score", iv.count)
    ELSE IF iv.target = "nearest_grid"
      THEN nsmallest(data, Labels(data), "dist_to_power_km", iv.count)
    ELSE head(data, iv.count)

MiniGridTargetsAnyRow(data, iv) ==
    nlargest(data, Labels(data), "priority_score", iv.count)

\* scenario.py 81-87: the rows mini_grid_deployment selects.
MiniGridTargets(data, iv) ==
    nlargest(data, suitable(data), "priority_score", iv.count)

\* targets.index of the intervention (empty for the types that select none).
TargetIndex(data, iv) ==
    IF iv.type = "grid_extension" THEN GridExtensionTargets(data, iv)
    ELSE IF iv.type = "mini_grid_deployment" THEN MiniGridTargets(data, iv)
    ELSE {}

\* x * (num / 10), exact in the unit 1/Scale.
Times10th(x, num) == (x * num) \div 10

GridDemandFactor10 == 15    \* *= 1.5
MiniDemandFactor10 == 13    \* *= 1.3

\* scenario.py 75 and 88: the status an intervention gives its targets.
GridExtensionStatus == "electrified"

MiniGridStatusNone == "none"

MiniGridStatus == "partial"

\* scenario.py 60-112.  The result is a new frame; `data` is not changed.
apply_intervention(data, iv) ==
    LET idx == TargetIndex(data, iv)
        n   == Len(data)
    IN
    IF iv.type = "grid_extension" THEN
        [ i \in 1..n |->
            IF i \in idx
              THEN [ data[i] EXCEPT
                       !.electrification_status = GridExtensionStatus,
                       !.recommended_solution = "grid_extension",
                       !.baseline_demand_mwh_year = Times10th(@, GridDemandFactor10),
                       !.scenario_tag = "grid_extension" ]
              ELSE data[i] ]
    ELSE IF iv.type = "mini_grid_deployment" THEN
        [ i \in 1..n |->
            IF i \in idx
              THEN [ data[i] EXCEPT
                       !.electrification_status = MiniGridStatus,
                       !.recommended_solution = "mini_grid",
                       !.baseline_demand_mwh_year = Times10th(@, MiniDemandFactor10),
                       !.scenario_tag = "mini_grid" ]
              ELSE data[i] ]
    ELSE IF iv.type = "population_growth" THEN
        [ i \in 1..n |->
            [ data[i] EXCEPT
                !.estimated_population = Times10th(@, 10 + iv.rate10),
                !.baseline_demand_mwh_year = Times10th(@, 10 + iv.rate10),
                !.baseline_peak_demand_kw = Times10th(@, 10 + iv.rate10),
                !.scenario_tag = "population_growth" ] ]
    ELSE IF iv.type = "demand_increase" THEN
        [ i \in 1..n |->
            [ data[i] EXCEPT
                !.baseline_demand_mwh_year = Times10th(@, 10 + iv.rate10),
                !.baseline_peak_demand_kw = Times10th(@, 10 + iv.rate10),
                !.scenario_tag = "demand_increase" ] ]
    ELSE IF iv.type = "solar_capacity_addition" THEN
        LET per_cluster == (iv.capacity_mw * SolarDen) \div Max2(n, 1)
        IN [ i \in 1..n |->
             [ data[i] EXCEPT
                 !.solar_capacity_mw =
                     << (IF @ = << >> THEN 0 ELSE @[1]) + per_cluster >>,
                 !.scenario_tag = "solar_capacity" ] ]
    ELSE data

Unelectrified(data) ==
    { i \in Labels(data) : data[i].electrification_status = "none" }

Column(data, col) == [ i \in Labels(data) |-> data[i][col] ]

\* scenario.py 118-122: the differences before the floor.
PeopleDelta(baseline, scenario) ==
      SumOver(Column(baseline, "estimated_population"), Unelectrified(baseline), 0)
    - SumOver(Column(scenario, "estimated_population"), Unelectrified(scenario), 0)

SettlementsDelta(baseline, scenario) ==
    Cardinality(Unelectrified(baseline)) - Cardinality(Unelectrified(scenario))

FloorAtZeroOff(x) == x

\* max(x, 0) of scenario.py 134-135
FloorAtZero(x) == Max2(x, 0)

\* scenario.py 114-141 for a scenario of at least one row (len(scenario) = 0
\* raises ZeroDivisionError at line 139).  electrification_rate is the
\* fraction <<numerator, denominator>>.
calculate_impacts(baseline, scenario) ==
    [ people_electrified    |-> FloorAtZero(PeopleDelta(baseline, scenario)),
      settlements_connected |-> FloorAtZero(SettlementsDelta(baseline, scenario)),
      demand_increase_mwh   |->
            SumOver(Column(scenario, "baseline_demand_mwh_year"), Labels(scenario), 0)
          - SumOver(Column(baseline, "baseline_demand_mwh_year"), Labels(baseline), 0),
      cost_usd              |->
            SumOver(Column(scenario, "estimated_cost_usd"), Labels(scenario), 0),
      electrification_rate  |->
            << Cardinality(Labels(scenario) \ Unelectrified(scenario)),
               Len(scenario) >> ]

NoImpacts == [ people_electrified |-> -1 ]

\* --------------------------------------------------------------- state
VARIABLES
    demand_file,    \* rows of the demand-forecast GeoJSON on disk
    frames,         \* the DataFrame objects of run(): object -> rows
    scenario_data,  \* the object the name scenario_data is bound to
    pc,             \* position of ScenarioPipeline.run
    applied,        \* interventions applied in the current scenario
    data_arg,       \* rows of `data` at the last apply_intervention call
    intervention,   \* `intervention` of the last apply_intervention call
    idx,            \* `idx` of the last apply_intervention call
    impacts         \* the dict of the last calculate_impacts call

scenVars == << demand_file, frames, scenario_data, pc, applied,
               data_arg, intervention, idx, impacts >>

\* State of one execution of run_all.main (python -m pipeline.run_all).
VARIABLES
    config,         \* the configuration document: [malformed, paths]
    input,          \* the scoring input dataset: does it exist, and which of
                    \* the columns the stages index it carries
    n_definitions,  \* len(config.scenarios.default_scenarios)
    disk,           \* output file -> id of the run that wrote its content
    scenario_files, \* k -> id of the run that wrote scenario k's GeoJSON
    rpc,            \* position of run_all.main
    caller,         \* who called DemandForecastPipeline.run: "main" or "scenario"
    k_definition,   \* scenarios already processed by ScenarioPipeline.run
    failure         \* kind of the exception that ended the run, "" if none

runVars == << config, input, n_definitions, disk, scenario_files, rpc, caller,
              k_definition, failure >>

\* State of the backend process (main.py): the job-status global, its lock,
\* the background jobs and one request thread that reads the status.
VARIABLES
    status,         \* the global `status`: the JobStatus object it is bound to
    lock,           \* holder of `lock` (a job), or 0 when free
    jobs,           \* job -> [at, started, outcome, child]: position of
                    \* run_scoring_job and writes its pipeline subprocess made
    clock,          \* datetime.now, as a counter
    written,        \* every JobStatus object a job has bound `status` to
    reader,         \* the request thread: [req, at, last_run, last_status, last_error]
    response        \* the last response a read endpoint returned

apiVars == << status, lock, jobs, clock, written, reader, response >>

\* State of one call of PriorityScoringPipeline.compute_scores.
VARIABLES
    scoring_config, \* Config: [weights, thresholds, rules, population_scale]
    gdf,            \* the input clusters: [has_population, rows]
    spc,            \* position of compute_scores
    composite,      \* the local `composite`, one value per row
    enriched        \* the rows compute_scores returns

scoreVars == << scoring_config, gdf, spc, composite, enriched >>

\* State of one call of normalize_to_ten.
VARIABLES
    values_arg,     \* the argument `values`
    invert_arg,     \* the argument `invert`
    npc,            \* position of the call
    normalized      \* the array the call returns

normVars == << values_arg, invert_arg, npc, normalized >>

\* State of the demand stage: _baseline_demand, then _forecast_demand calls.
VARIABLES
    demand_config,  \* DemandConfig
    demand_gdf,     \* the GeoDataFrame of the stage: [has_energy_need,
                    \* has_cluster_id, rows]
    dpc,            \* position of the stage
    target_years    \* the target years _forecast_demand was called with

demandVars == << demand_config, demand_gdf, dpc, target_years >>

vars == << scenVars, runVars, apiVars, scoreVars, normVars, demandVars >>

notScenVars == << runVars, apiVars, scoreVars, normVars, demandVars >>
notRunVars == << scenVars, apiVars, scoreVars, normVars, demandVars >>
notApiVars == << scenVars, runVars, scoreVars, normVars, demandVars >>
notScoreVars == << scenVars, runVars, apiVars, normVars, demandVars >>
notNormVars == << scenVars, runVars, apiVars, scoreVars, demandVars >>
notDemandVars == << scenVars, runVars, apiVars, scoreVars, normVars >>

\* The variables of run_all.main but the output files.
runButFiles == << config, input, n_definitions, rpc, caller, failure >>

\* ------------------------------------------------------------- run_all.py
MaxDefinitions == 2     \* scenario definitions of the configuration

\* The keys of the `paths` section that the stages read.
ScoringKeys == {"scoring_input", "scoring_output_geojson", "scoring_output_csv"}
DemandKeys == {"demand_output_geojson", "demand_output_csv", "summary_stats_json"}
ScenarioKeys == {"demand_output_geojson", "scenario_output_dir", "scenario_comparison_csv"}
PathKeys == ScoringKeys \cup DemandKeys \cup ScenarioKeys

\* Configuration documents: well-formed or not, with every path key or with
\* one of them missing.
Configs ==
    [ malformed : BOOLEAN,
      paths : {PathKeys} \cup { PathKeys \ {key} : key \in PathKeys } ]

\* Scoring input datasets: present or not, with or without a geometry
\* column, a cluster_id column, an energy_need_score column and a
\* dist_to_power_km column (the stages pass the input's columns on).
Inputs ==
    [ exists : BOOLEAN, geometry : BOOLEAN, cluster_id : BOOLEAN,
      energy_need_score : BOOLEAN, dist_to_power_km : BOOLEAN ]

OutputFiles == {"scoring_geojson", "scoring_csv", "demand_geojson", "demand_csv",
                "summary_json", "comparison_csv"}

\* A file's content is named by the run that wrote it: "prior" is whatever
\* the file held (or its absence) before this run started; where a stage
\* asks whether a file exists, "absent" says that it does not.  A rewrite by
\* this run changes the content: the scoring GeoJSON carries the
\* generated_at timestamp of scoring.py 188, and the demand and scenario
\* GeoJSON files are derived from it.
PriorDisk == [ f \in OutputFiles |-> "prior" ]
PriorScenarioFiles == [ k \in 1..MaxDefinitions |-> "prior" ]


\* -------------------------------------------------------------- scoring.py
MaxScoredClusters == 2  \* rows of the scoring input

\* Units.  Sub-scores (0 to 10) are held in units of 1/ScoreUnit, weights
\* and thresholds in thousandths, so the composite is held in units of
\* 1/(1000 * ScoreUnit).  Population indices are held in thousandths, road
\* densities in tenths.  Values written to the output are rounded to 2
\* decimals and held in hundredths.
ScoreUnit == 2 * 3
CompositeUnit == 1000 * ScoreUnit
IndexUnit == 10 * 100

\* scoring.py 130-131: thresholds.get("high_priority", 7.0),
\* thresholds.get("medium_priority", 5.0), in thousandths.
DefaultHighPriority == 7000
DefaultMediumPriority == 5000

\* scoring.py 199-217: the defaults of the recommendation rules (population
\* indices 0.6, 0.3 and 0.2, road density 0.5).
DefaultRules ==
    [ grid_extension   |-> [ max_distance_km |-> 5, min_population_index |-> 600 ],
      mini_grid_hybrid |-> [ max_distance_km |-> 15, min_population_index |-> 300,
                             min_road_density |-> 5 ],
      standalone_solar |-> [ min_distance_km |-> 25, max_population_index |-> 200 ] ]

\* A configured alternative, in which a sampled population index (0.5) is
\* a cut-off value itself.
WiderRules ==
    [ grid_extension   |-> [ max_distance_km |-> 10, min_population_index |-> 500 ],
      mini_grid_hybrid |-> [ max_distance_km |-> 20, min_population_index |-> 125,
                             min_road_density |-> 3 ],
      standalone_solar |-> [ min_distance_km |-> 20, max_population_index |-> 300 ] ]

\* scoring.py 81: scoring.get("population_scale", 5000)
DefaultPopulationScale == 5000

\* Weights and thresholds in thousandths, high_priority > medium_priority:
\* weights 0.3/0.25/0.2/0.15/0.1 with the default thresholds 7.0 and 5.0,
\* and weights 0.5/0.25/0.25/0/0 with thresholds 7.5 and 2.5.
Calibrations ==
    { [ weights |-> [ population |-> 300, access_gap |-> 250,
                      economic_activity |-> 200, social_need |-> 150,
                      grid_proximity |-> 100 ],
        thresholds |-> [ high_priority |-> DefaultHighPriority,
                         medium_priority |-> DefaultMediumPriority ] ],
      [ weights |-> [ population |-> 500, access_gap |-> 250,
                      economic_activity |-> 250, social_need |-> 0,
                      grid_proximity |-> 0 ],
        thresholds |-> [ high_priority |-> 7500, medium_priority |-> 2500 ] ] }

ScoringConfigs ==
    { [ weights |-> c.weights, thresholds |-> c.thresholds, rules |-> r,
        population_scale |-> DefaultPopulationScale ] :
      c \in Calibrations, r \in {DefaultRules, WiderRules} }

\* Input rows.  The population index is 0.125, 0.5 or 0.875; the grid
\* distance 5, 15 or 25 km; access gap and economic indicator 0 or 1; the
\* social-need indicator is present and positive.
InputRows ==
    [ norm_pop : {125, 500, 875}, access_gap : {0, 1}, economic : {0, 1},
      social : {1}, grid_distance : {5, 15, 25} ]

\* Input datasets: with the population column or without it (resolve_field
\* then yields the default 0.0 for every row).
InputFrames ==
    [ has_population : BOOLEAN,
      rows : UNION { [1..n -> InputRows] : n \in 0..MaxScoredClusters } ]

\* ---------------------------------------------------------------- main.py
MaxJobs == 2            \* recalculation jobs submitted to the backend

Jobs == 1..MaxJobs

\* main.py 61-67: status = JobStatus(); None is held as 0 / "None".
InitialStatus == [ last_run |-> 0, last_status |-> "None", last_error |-> "None" ]

\* The ways the pipeline subprocess can end: exit code 0 with an empty or a
\* non-empty stderr, or a non-zero exit code (CalledProcessError).
Outcomes == {"ok", "ok_stderr", "nonzero"}

NoJob == [ at |-> "none", started |-> 0, outcome |-> "-", child |-> 0 ]
NoReader == [ req |-> "none", at |-> 0, last_run |-> 0,
              last_status |-> "None", last_error |-> "None" ]
NoResponse == [ kind |-> "none" ]

\* ------------------------------------------------------------ states at rest
\* The scenario stage at rest, for the specifications of the other parts.
ScenarioIdle ==
    /\ demand_file = << >>
    /\ frames = [ o \in {"baseline", "scenario"} |-> << >> ]
    /\ scenario_data = "scenario"
    /\ pc = "idle"
    /\ applied = 0
    /\ data_arg = << >>
    /\ intervention = NoIntervention
    /\ idx = {}
    /\ impacts = NoImpacts

\* No pipeline execution under way: a well-formed configuration with n
\* scenario definitions, a complete input, the output files as they were.
RunAtRest(n) ==
    /\ config = [ malformed |-> FALSE, paths |-> PathKeys ]
    /\ input = [ exists |-> TRUE, geometry |-> TRUE, cluster_id |-> TRUE,
                 energy_need_score |-> TRUE, dist_to_power_km |-> TRUE ]
    /\ n_definitions = n
    /\ disk = PriorDisk
    /\ scenario_files = PriorScenarioFiles
    /\ rpc = "idle"
    /\ caller = "main"
    /\ k_definition = 0
    /\ failure = ""

RunIdle == RunAtRest(0)

\* The backend at rest.
ApiIdle ==
    /\ status = InitialStatus
    /\ lock = 0
    /\ jobs = [ j \in Jobs |-> NoJob ]
    /\ clock = 0
    /\ written = {}
    /\ reader = NoReader
    /\ response = NoResponse

\* The scoring stage at rest.
ScoringIdle ==
    /\ scoring_config = [ weights |-> << >>, thresholds |-> << >>, rules |-> << >>,
                          population_scale |-> 0 ]
    /\ gdf = [ has_population |-> FALSE, rows |-> << >> ]
    /\ spc = "idle"
    /\ composite = << >>
    /\ enriched = << >>

\* No call of normalize_to_ten under way.
NormIdle ==
    /\ values_arg = << >>
    /\ invert_arg = FALSE
    /\ npc = "idle"
    /\ normalized = << >>

\* The demand stage at rest.
DemandIdle ==
    /\ demand_config = << >>
    /\ demand_gdf = [ has_energy_need |-> FALSE, has_cluster_id |-> FALSE,
                      rows |-> << >> ]
    /\ dpc = "idle"
    /\ target_years = {}

\* Every part but the one a specification is about is at rest.
OthersIdle == NormIdle /\ DemandIdle

\* ------------------------------------------------------ run_all.py: steps
\* An exception leaves main: the process exits with an error.
Raise(kind) ==
    /\ rpc' = "failed"
    /\ failure' = kind

WriteFile(f) == disk' = [disk EXCEPT ![f] = "this_run"]

\* The files run_all.main writes before the scenario loop, in order:
\* scoring.py 227-247, then demand.py 157-183 twice (run_all.py 15 and
\* scenario.py 38).
RunWrites ==
    << "scoring_geojson", "scoring_csv",
       "demand_geojson", "demand_csv", "summary_json",
       "demand_geojson", "demand_csv", "summary_json" >>

\* The number of writes of a complete run with n scenario definitions:
\* scenario.py 162 once per definition, 169 when there is at least one.
ChildWrites(n) == Len(RunWrites) + n + (IF n > 0 THEN 1 ELSE 0)

\* The numbers of writes after which a run can fail: before any write
\* (configuration, input), after the scoring files (demand.py 84, 150-152),
\* after the demand GeoJSON (demand.py 159-172), after the second demand
\* run (scenario.py 40-42) and inside the scenario loop, before the
\* GeoJSON of a definition.
FailurePoints(n) ==
    {0, 2, 3, Len(RunWrites)} \cup { Len(RunWrites) + k : k \in 0..(n - 1) }

\* The output files after the first p writes of a run with n definitions.
DiskAfter(p) ==
    [ f \in OutputFiles |->
        IF \/ \E w \in 1..Min2(p, Len(RunWrites)) : RunWrites[w] = f
           \/ f = "comparison_csv" /\ p > Len(RunWrites) + n_definitions
          THEN "this_run" ELSE "prior" ]

ScenarioFilesAfter(p) ==
    [ k \in 1..MaxDefinitions |->
        IF k <= n_definitions /\ Len(RunWrites) + k <= p
          THEN "this_run" ELSE "prior" ]

\* scoring.py 88-90 and 64-82: PriorityScoringPipeline(config)
ScoringInit ==
    /\ rpc = "scoring_init"
    /\ IF config.malformed \/ ~(ScoringKeys \subseteq config.paths)
         THEN Raise("configuration")
         ELSE rpc' = "scoring_load" /\ UNCHANGED failure
    /\ UNCHANGED << config, input, n_definitions, disk, scenario_files, caller,
                    k_definition >>
    /\ UNCHANGED notRunVars

\* scoring.py 92-100 and 250-251: load_clusters, compute_scores
ScoringLoad ==
    /\ rpc = "scoring_load"
    /\ IF ~input.exists THEN Raise("missing_input")
       ELSE IF ~input.geometry THEN Raise("geometry")
       ELSE rpc' = "scoring_write_geojson" /\ UNCHANGED failure
    /\ UNCHANGED << config, input, n_definitions, disk, scenario_files, caller,
                    k_definition >>
    /\ UNCHANGED notRunVars

\* scoring.py 227-233: enriched.to_file(geojson_path)
ScoringWriteGeojson ==
    /\ rpc = "scoring_write_geojson"
    /\ WriteFile("scoring_geojson")
    /\ rpc' = "scoring_write_csv"
    /\ UNCHANGED << config, input, n_definitions, scenario_files, caller,
                    k_definition, failure >>
    /\ UNCHANGED notRunVars

\* scoring.py 235-247: to_csv(csv_path); run_all.py 15 comes next
ScoringWriteCsv ==
    /\ rpc = "scoring_write_csv"
    /\ WriteFile("scoring_csv")
    /\ rpc' = "demand_init"
    /\ caller' = "main"
    /\ UNCHANGED << config, input, n_definitions, scenario_files, k_definition,
                    failure >>
    /\ UNCHANGED notRunVars

\* demand.py 47-53: DemandForecastPipeline(config) reads the document again
\* and takes config["paths"] as a whole; no output key is looked up here.
DemandInit ==
    /\ rpc = "demand_init"
    /\ IF config.malformed
         THEN Raise("configuration")
         ELSE rpc' = "demand_load" /\ UNCHANGED failure
    /\ UNCHANGED << config, input, n_definitions, disk, scenario_files, caller,
                    k_definition >>
    /\ UNCHANGED notRunVars

\* demand.py 55-60 and 187-189: the enriched clusters are read back (the
\* scoring stage of this run has written them), baseline and forecast are
\* computed: line 84 raises AttributeError when the dataset has no
\* energy_need_score column (gdf.get yields the default 0, and the number
\* pd.to_numeric returns for it has no fillna); 150-155: the output paths
\* are looked up.
DemandPaths ==
    /\ rpc = "demand_load"
    /\ IF ~input.energy_need_score THEN Raise("data")
       ELSE IF ~(DemandKeys \subseteq config.paths) THEN Raise("configuration")
       ELSE rpc' = "demand_write_geojson" /\ UNCHANGED failure
    /\ UNCHANGED << config, input, n_definitions, disk, scenario_files, caller,
                    k_definition >>
    /\ UNCHANGED notRunVars

\* demand.py 157: gdf.to_file(demand_geojson)
DemandWriteGeojson ==
    /\ rpc = "demand_write_geojson"
    /\ WriteFile("demand_geojson")
    /\ rpc' = "demand_write_csv"
    /\ UNCHANGED << config, input, n_definitions, scenario_files, caller,
                    k_definition, failure >>
    /\ UNCHANGED notRunVars

\* demand.py 159-173: the column selection raises KeyError when the input
\* has no cluster_id column (the other columns are added by the stages);
\* otherwise the CSV is written.
DemandWriteCsv ==
    /\ rpc = "demand_write_csv"
    /\ IF ~input.cluster_id
         THEN Raise("data") /\ UNCHANGED disk
         ELSE WriteFile("demand_csv") /\ rpc' = "demand_write_summary"
              /\ UNCHANGED failure
    /\ UNCHANGED << config, input, n_definitions, scenario_files, caller,
                    k_definition >>
    /\ UNCHANGED notRunVars

\* demand.py 175-184: summary_path.write_text; run() returns to its caller:
\* run_all.py 16 or scenario.py 40.
DemandWriteSummary ==
    /\ rpc = "demand_write_summary"
    /\ WriteFile("summary_json")
    /\ rpc' = IF caller = "main" THEN "scenario_init" ELSE "scenario_paths"
    /\ UNCHANGED << config, input, n_definitions, scenario_files, caller,
                    k_definition, failure >>
    /\ UNCHANGED notRunVars

\* scenario.py 30-38: ScenarioPipeline(config) reads the document, takes
\* config["paths"] and runs the demand stage again.
ScenarioInit ==
    /\ rpc = "scenario_init"
    /\ IF config.malformed
         THEN Raise("configuration") /\ UNCHANGED caller
         ELSE rpc' = "demand_init" /\ caller' = "scenario" /\ UNCHANGED failure
    /\ UNCHANGED << config, input, n_definitions, disk, scenario_files,
                    k_definition >>
    /\ UNCHANGED notRunVars

\* scenario.py 40-42: the scenario paths are looked up; 144-147: run() starts
ScenarioPaths ==
    /\ rpc = "scenario_paths"
    /\ IF ~(ScenarioKeys \subseteq config.paths)
         THEN Raise("configuration") /\ UNCHANGED k_definition
         ELSE rpc' = "scenario_loop" /\ k_definition' = 0 /\ UNCHANGED failure
    /\ UNCHANGED << config, input, n_definitions, disk, scenario_files, caller >>
    /\ UNCHANGED notRunVars

\* scenario.py 149-162: one definition: its interventions are applied and
\* its GeoJSON is written.  nearest_grid says whether the definition holds
\* a grid_extension with target "nearest_grid": line 70 then raises
\* KeyError when the dataset has no dist_to_power_km column.
ScenarioWriteGeojson(nearest_grid) ==
    /\ rpc = "scenario_loop"
    /\ k_definition < n_definitions
    /\ IF nearest_grid /\ ~input.dist_to_power_km
         THEN Raise("data") /\ UNCHANGED << scenario_files, k_definition >>
         ELSE /\ scenario_files' =
                   [scenario_files EXCEPT ![k_definition + 1] = "this_run"]
              /\ k_definition' = k_definition + 1
              /\ UNCHANGED << rpc, failure >>
    /\ UNCHANGED << config, input, n_definitions, disk, caller >>
    /\ UNCHANGED notRunVars

\* scenario.py 164-171 and run_all.py 17: the comparison table is written
\* when there is at least one scenario; the run is complete.
ScenarioWriteComparison ==
    /\ rpc = "scenario_loop"
    /\ k_definition = n_definitions
    /\ IF n_definitions > 0 THEN WriteFile("comparison_csv") ELSE UNCHANGED disk
    /\ rpc' = "done"
    /\ UNCHANGED << config, input, n_definitions, scenario_files, caller,
                    k_definition, failure >>
    /\ UNCHANGED notRunVars

RunStart ==
    /\ config \in Configs
    /\ input \in Inputs
    /\ n_definitions \in 0..MaxDefinitions
    /\ disk = PriorDisk
    /\ scenario_files = PriorScenarioFiles
    /\ rpc = "scoring_init"
    /\ caller = "main"
    /\ k_definition = 0
    /\ failure = ""

InitRun == RunStart /\ ScenarioIdle /\ ApiIdle /\ ScoringIdle /\ OthersIdle

NextRun ==
    \/ ScoringInit
    \/ ScoringLoad
    \/ ScoringWriteGeojson
    \/ ScoringWriteCsv
    \/ DemandInit
    \/ DemandPaths
    \/ DemandWriteGeojson
    \/ DemandWriteCsv
    \/ DemandWriteSummary
    \/ ScenarioInit
    \/ ScenarioPaths
    \/ \E nearest_grid \in BOOLEAN : ScenarioWriteGeojson(nearest_grid)
    \/ ScenarioWriteComparison

SpecRun == InitRun /\ [][NextRun]_vars

\* A failed run has made the writes of one of FailurePoints, and a complete
\* run all the writes of a run.
RunWritesInOrder ==
    /\ rpc = "failed" =>
          \E p \in FailurePoints(n_definitions) :
            disk = DiskAfter(p) /\ scenario_files = ScenarioFilesAfter(p)
    /\ rpc = "done" =>
          /\ disk = DiskAfter(ChildWrites(n_definitions))
          /\ scenario_files = ScenarioFilesAfter(ChildWrites(n_definitions))

\* Every output file holds the content it had before the run started.
OutputsUntouched ==
    /\ disk = PriorDisk
    /\ scenario_files = PriorScenarioFiles

\* C5: a pipeline run is all-or-nothing with respect to the persisted output
\* files: if the run fails at any stage, every output file still has the
\* content it had before the run started; outputs change only when the
\* whole run completes.  (Stated on the runs that have failed.)
RunAllOrNothing ==
    rpc = "failed" => OutputsUntouched

\* C8: a configuration error (a required path key missing from `paths`, for
\* any stage, or a malformed document) aborts the run before any output
\* file of any stage has been written or overwritten.
ConfigErrorBeforeAnyOutput ==
    (rpc = "failed" /\ failure = "configuration") => OutputsUntouched

\* ------------------------------------------------------ scoring.py: steps
RECURSIVE SeqMax(_, _)
SeqMax(arr, n) == IF n = 1 THEN arr[1] ELSE Max2(SeqMax(arr, n - 1), arr[n])

RECURSIVE SeqMin(_, _)
SeqMin(arr, n) == IF n = 1 THEN arr[1] ELSE Min2(SeqMin(arr, n - 1), arr[n])

\* scoring.py 22-23
clamp(value, minimum, maximum) == Max2(minimum, Min2(value, maximum))

\* Rounding of num/den (den > 0, num >= 0) to the nearest integer, halves
\* to the even neighbour: numpy.round.
RoundHalfEven(num, den) ==
    LET q == num \div den
        r == num % den
    IN IF 2 * r < den THEN q
       ELSE IF 2 * r > den THEN q + 1
       ELSE IF q % 2 = 0 THEN q ELSE q + 1

\* float64 values are held as integers.  FloatMax stands for the largest
\* finite float64: a sum or difference beyond it is infinite, and the
\* quotient of two infinities is NaN.  PosInf, NegInf and NaN are the
\* special values, held as integers outside the finite range.
FloatMax == 2 ^ 20
PosInf == FloatMax + 1
NegInf == 0 - PosInf
NaN == FloatMax + 2

\* scoring.py 28: numpy.nan_to_num(arr, nan=0.0, posinf=0.0, neginf=0.0)
nan_to_num(v) == IF v \in {NaN, PosInf, NegInf} THEN 0 ELSE v

\* scoring.py 26-41.  The result is in units of 1/ScoreUnit.  The sampled
\* values are far apart or equal, for which numpy.isclose(vmax, vmin) is
\* vmax = vmin.  When vmax - vmin is infinite, (arr - vmin) / (vmax - vmin)
\* is 0 where arr - vmin is finite and NaN where it is infinite too, and
\* numpy.clip leaves NaN as it is.
normalize_to_ten(vals, invert) ==
    IF Len(vals) = 0 THEN << >>
    ELSE LET arr == [ i \in 1..Len(vals) |-> nan_to_num(vals[i]) ]
             vmax == SeqMax(arr, Len(arr))
             vmin == SeqMin(arr, Len(arr))
         IN IF vmax = vmin
              THEN [ i \in 1..Len(arr) |-> 5 * ScoreUnit ]
            ELSE IF vmax - vmin > FloatMax
              THEN [ i \in 1..Len(arr) |->
                     IF arr[i] - vmin > FloatMax THEN NaN
                     ELSE IF invert THEN 10 * ScoreUnit ELSE 0 ]
            ELSE [ i \in 1..Len(arr) |->
                     LET n == (10 * ScoreUnit * (arr[i] - vmin)) \div (vmax - vmin)
                     IN clamp(IF invert THEN 10 * ScoreUnit - n ELSE n,
                              0, 10 * ScoreUnit) ]

\* scoring.py 44-48 for the population candidates: the column, or the
\* default 0.0 for every row.  In thousandths.
PopulationIndex(frame) ==
    [ i \in 1..Len(frame.rows) |->
        IF frame.has_population THEN frame.rows[i].norm_pop ELSE 0 ]

\* scoring.py 109 and 115: social_raw is the social-need column, and
\* numpy.where keeps it wherever it is positive, which is every row of the
\* sampled frames; the exponential proxy of the other rows is not taken.
SocialAdjusted(frame) ==
    [ i \in 1..Len(frame.rows) |-> frame.rows[i].social ]

categorizeStrict(value, high, medium) ==
    IF value > high THEN "High"
    ELSE IF value > medium THEN "Medium"
    ELSE "Low"

\* scoring.py 133-138
categorize(value, high, medium) ==
    IF value >= high THEN "High"
    ELSE IF value >= medium THEN "Medium"
    ELSE "Low"

\* The rule conditions of scoring.py 200-203, 207-211 and 215-218.
\* road_density_score = clamp(economic_score / 10, 0, 1) is held in units of
\* 1/(10 * ScoreUnit), in which it is clamp(economic_score, 0, 10 * ScoreUnit).
GridRuleHolds(distance_km, population_index, rules) ==
    /\ distance_km <= rules.grid_extension.max_distance_km
    /\ population_index >= rules.grid_extension.min_population_index

HybridRuleHolds(distance_km, population_index, economic_score, rules) ==
    /\ distance_km <= rules.mini_grid_hybrid.max_distance_km
    /\ population_index >= rules.mini_grid_hybrid.min_population_index
    /\ clamp(economic_score, 0, 10 * ScoreUnit)
         >= rules.mini_grid_hybrid.min_road_density * ScoreUnit

StandaloneRuleHolds(distance_km, population_index, rules) ==
    /\ distance_km >= rules.standalone_solar.min_distance_km
    /\ population_index <= rules.standalone_solar.max_population_index

recommendHybridFirst(distance_km, population_index, economic_score, rules) ==
    IF HybridRuleHolds(distance_km, population_index, economic_score, rules) THEN "mini_grid_hybrid"
    ELSE IF GridRuleHolds(distance_km, population_index, rules) THEN "grid_extension"
    ELSE IF StandaloneRuleHolds(distance_km, population_index, rules) THEN "standalone_solar"
    ELSE "mini_grid_solar"

\* scoring.py 195-221
recommend_solution(distance_km, population_index, economic_score, rules) ==
    IF GridRuleHolds(distance_km, population_index, rules) THEN "grid_extension"
    ELSE IF HybridRuleHolds(distance_km, population_index, economic_score, rules) THEN "mini_grid_hybrid"
    ELSE IF StandaloneRuleHolds(distance_km, population_index, rules) THEN "standalone_solar"
    ELSE "mini_grid_solar"

\* utils.py 11-35: the population indicator, read as a 0-100 percentage
\* when its maximum exceeds 1, clipped to [0, 1], times the scale.  In
\* persons.
estimate_population(frame, scale) ==
    LET values == PopulationIndex(frame)
        n == Len(values)
        rescaled == [ i \in 1..n |->
                        IF SeqMax(values, n) > IndexUnit
                          THEN clamp(values[i], 0, 100 * IndexUnit) \div 100
                          ELSE values[i] ]
    IN [ i \in 1..n |-> (clamp(rescaled[i], 0, IndexUnit) * scale) \div IndexUnit ]

\* scoring.py 121-127, in units of 1/CompositeUnit
Composite(weights, pop, gap, econ, social, grid) ==
    [ i \in 1..Len(pop) |->
          weights.population * pop[i]
        + weights.access_gap * gap[i]
        + weights.economic_activity * econ[i]
        + weights.social_need * social[i]
        + weights.grid_proximity * grid[i] ]

\* numpy.round(x, 2) of a sub-score, in hundredths
RoundScore(score) == RoundHalfEven(score * 100, ScoreUnit)

\* scoring.py 102-193 (scoring_metadata and geometry are carried, not
\* computed on, and are left out).
ComputeScores ==
    /\ spc = "start"
    /\ LET n == Len(gdf.rows)
           population_index == PopulationIndex(gdf)
           grid_distance == [ i \in 1..n |-> gdf.rows[i].grid_distance ]
           population_score == normalize_to_ten(population_index, FALSE)
           access_gap_score ==
               normalize_to_ten([ i \in 1..n |-> gdf.rows[i].access_gap ], TRUE)
           economic_score ==
               normalize_to_ten([ i \in 1..n |-> gdf.rows[i].economic ], FALSE)
           social_need_score == normalize_to_ten(SocialAdjusted(gdf), FALSE)
           grid_proximity_score == normalize_to_ten(grid_distance, TRUE)
           comp == Composite(scoring_config.weights, population_score,
                             access_gap_score, economic_score, social_need_score,
                             grid_proximity_score)
           high == scoring_config.thresholds.high_priority * ScoreUnit
           medium == scoring_config.thresholds.medium_priority * ScoreUnit
           recommendations ==
               [ i \in 1..n |->
                   recommend_solution(grid_distance[i], population_index[i],
                                      economic_score[i], scoring_config.rules) ]
           estimated_population ==
               estimate_population(gdf, scoring_config.population_scale)
           estimated_cost ==
               [ i \in 1..n |->
                   estimate_cost(recommendations[i], estimated_population[i],
                                 grid_distance[i]) ]
       IN /\ composite' = comp
          /\ enriched' =
               [ i \in 1..n |->
                   [ population_score     |-> RoundScore(population_score[i]),
                     access_gap_score     |-> RoundScore(access_gap_score[i]),
                     economic_score       |-> RoundScore(economic_score[i]),
                     social_need_score    |-> RoundScore(social_need_score[i]),
                     grid_proximity_score |-> RoundScore(grid_proximity_score[i]),
                     priority_score       |-> RoundHalfEven(comp[i] * 100, CompositeUnit),
                     priority_category    |-> categorize(comp[i], high, medium),
                     recommended_solution |-> recommendations[i],
                     estimated_population |-> estimated_population[i],
                     estimated_cost_usd   |-> estimated_cost[i],
                     \* in cents
                     cost_per_person_usd  |->
                         IF estimated_population[i] > 0
                           THEN RoundHalfEven(estimated_cost[i] * 100,
                                              Max2(estimated_population[i], 1))
                           ELSE 0 ] ]
    /\ spc' = "computed"
    /\ UNCHANGED << scoring_config, gdf >>
    /\ UNCHANGED notScoreVars

ScoringStart ==
    /\ scoring_config \in ScoringConfigs
    /\ gdf \in InputFrames
    /\ spc = "start"
    /\ composite = << >>
    /\ enriched = << >>

InitScoring == ScoringStart /\ ScenarioIdle /\ RunIdle /\ ApiIdle /\ OthersIdle

NextScoring == ComputeScores

SpecScoring == InitScoring /\ [][NextScoring]_vars

\* The thresholds of the configuration, in the unit of the composite.
HighThreshold == scoring_config.thresholds.high_priority * ScoreUnit
MediumThreshold == scoring_config.thresholds.medium_priority * ScoreUnit

\* C9: for every cluster compute_scores produces, priority_category agrees
\* with the thresholds applied to its composite score: composite >= high
\* gives "High", medium <= composite < high gives "Medium", composite <
\* medium gives "Low", the exact threshold values included.
CategoryMatchesThresholds ==
    spc = "computed" =>
      \A i \in DOMAIN enriched :
        /\ composite[i] >= HighThreshold
             => enriched[i].priority_category = "High"
        /\ (composite[i] >= MediumThreshold /\ composite[i] < HighThreshold)
             => enriched[i].priority_category = "Medium"
        /\ composite[i] < MediumThreshold
             => enriched[i].priority_category = "Low"

\* One row has a composite equal to high_priority and is "High", another a
\* composite below medium_priority and is "Low".
CategoryMatchesThresholdsWitness ==
    /\ spc = "computed"
    /\ \E i, j \in DOMAIN enriched :
          /\ composite[i] = HighThreshold
          /\ enriched[i].priority_category = "High"
          /\ composite[j] < MediumThreshold
          /\ enriched[j].priority_category = "Low"

\* The inputs of recommend_solution for row i, as compute_scores passes them.
RowDistance(i) == gdf.rows[i].grid_distance
RowPopulationIndex(i) == IF gdf.has_population THEN gdf.rows[i].norm_pop ELSE 0
RowEconomicScore(i) ==
    LET econ == [ r \in DOMAIN gdf.rows |-> gdf.rows[r].economic ]
        lo == SeqMin(econ, Len(econ))
        hi == SeqMax(econ, Len(econ))
    IN IF lo = hi THEN 5 * ScoreUnit
       ELSE IF econ[i] = hi THEN 10 * ScoreUnit ELSE 0

\* C10: recommend_solution takes the rules in the order grid_extension,
\* mini_grid_hybrid, standalone_solar and returns the first whose condition
\* holds, and mini_grid_solar exactly when none holds; a cluster that
\* satisfies both the grid_extension and the mini_grid_hybrid condition
\* resolves to "grid_extension".
FirstMatchingRuleWins ==
    spc = "computed" =>
      \A i \in DOMAIN enriched :
        LET rules == scoring_config.rules
            grid == /\ RowDistance(i) <= rules.grid_extension.max_distance_km
                    /\ RowPopulationIndex(i) >= rules.grid_extension.min_population_index
            hybrid == /\ RowDistance(i) <= rules.mini_grid_hybrid.max_distance_km
                      /\ RowPopulationIndex(i) >= rules.mini_grid_hybrid.min_population_index
                      /\ RowEconomicScore(i)
                           >= rules.mini_grid_hybrid.min_road_density * ScoreUnit
            solar == /\ RowDistance(i) >= rules.standalone_solar.min_distance_km
                     /\ RowPopulationIndex(i) <= rules.standalone_solar.max_population_index
            got == enriched[i].recommended_solution
        IN /\ got = "grid_extension" <=> grid
           /\ got = "mini_grid_hybrid" <=> (~grid /\ hybrid)
           /\ got = "standalone_solar" <=> (~grid /\ ~hybrid /\ solar)
           /\ got = "mini_grid_solar" <=> (~grid /\ ~hybrid /\ ~solar)
           /\ (grid /\ hybrid) => got = "grid_extension"

\* A row satisfies the grid_extension and the mini_grid_hybrid condition
\* and got "grid_extension"; another row fell through to mini_grid_solar.
FirstMatchingRuleWinsWitness ==
    /\ spc = "computed"
    /\ \E i, j \in DOMAIN enriched :
          /\ GridRuleHolds(RowDistance(i), RowPopulationIndex(i), scoring_config.rules)
          /\ HybridRuleHolds(RowDistance(i), RowPopulationIndex(i),
                             RowEconomicScore(i), scoring_config.rules)
          /\ enriched[i].recommended_solution = "grid_extension"
          /\ enriched[j].recommended_solution = "mini_grid_solar"

\* The integer divisions of the scoring model are exact.
ScoringExact ==
    /\ spc = "start" =>
         \A arr \in { PopulationIndex(gdf), SocialAdjusted(gdf),
                      [ i \in DOMAIN gdf.rows |-> gdf.rows[i].grid_distance ],
                      [ i \in DOMAIN gdf.rows |-> gdf.rows[i].economic ],
                      [ i \in DOMAIN gdf.rows |-> gdf.rows[i].access_gap ] } :
           Len(arr) > 0 =>
             LET vmin == SeqMin(arr, Len(arr))
                 d == SeqMax(arr, Len(arr)) - vmin
             IN d > 0 => \A i \in DOMAIN arr :
                           (10 * ScoreUnit * (arr[i] - vmin)) % d = 0
    /\ spc = "computed" =>
         \A i \in DOMAIN enriched :
           /\ (composite[i] * 100) % CompositeUnit = 0
           /\ (PopulationIndex(gdf)[i] * scoring_config.population_scale) % IndexUnit = 0

\* --------------------------------- compute_scores on degenerate indicators
\* Input rows at the edges of the indicator ranges: a population index of
\* 0 or 1, a grid distance of 0 km or below zero.
DegenerateRows ==
    [ norm_pop : {0, IndexUnit}, access_gap : {0, 1}, economic : {0, 1},
      social : {1}, grid_distance : {0 - 400, 0 - 200, 0} ]

DegenerateFrames ==
    [ has_population : BOOLEAN,
      rows : UNION { [1..n -> DegenerateRows] : n \in 0..MaxScoredClusters } ]

DegenerateStart ==
    /\ scoring_config \in ScoringConfigs
    /\ gdf \in DegenerateFrames
    /\ spc = "start"
    /\ composite = << >>
    /\ enriched = << >>

InitDegenerate == DegenerateStart /\ ScenarioIdle /\ RunIdle /\ ApiIdle /\ OthersIdle

SpecDegenerate == InitDegenerate /\ [][NextScoring]_vars

\* cost_per_person_usd is 0 for every cluster whose estimated population
\* is 0.
CostZeroWithoutPeople ==
    spc = "computed" =>
      \A i \in DOMAIN enriched :
        enriched[i].estimated_population = 0 => enriched[i].cost_per_person_usd = 0

\* C12: for every cluster compute_scores produces, whatever its resolved
\* indicator values (a grid distance of zero or below and an estimated
\* population of 0 included), cost_per_person_usd is finite and
\* non-negative, and it is 0 when the estimated population is 0.
CostPerPersonNonNegative ==
    spc = "computed" =>
      /\ CostZeroWithoutPeople
      /\ \A i \in DOMAIN enriched : enriched[i].cost_per_person_usd >= 0

\* ---------------------------------------------------- demand.py: the stage
MaxDemandRows == 2  \* rows of the enriched dataset the demand stage reads
MaxYears == 2       \* how far past the base year a sampled target year lies
MaxCalls == 2       \* _forecast_demand calls on one dataset

\* demand.py 120: base_year = 2024
BaseYear == 2024

\* demand.py 189: run() forecasts for target_year=2030
RunTargetYear == 2030

\* The farthest target year, in years past the base year.
Horizon == Max2(MaxYears, RunTargetYear - BaseYear)

\* Units.  Growth rates are held in units of 1/RateUnit (0.015 is 3), the
\* consumption growth rate in units of 1/ConsumptionUnit (0.025 is 1), the
\* electrification target rate in tenths.  A projected population is held
\* in units of 1/RateUnit^Horizon persons and a consumption multiplier in
\* units of 1/ConsumptionUnit^Horizon, so that the values of all target
\* years are integers on one scale.  These integers are beyond 32 bits:
\* they are held as their digits in base Base, least significant first and
\* without leading zeros (0 is the empty sequence).
RateUnit == 2 * 100
ConsumptionUnit == 4 * 10
Base == 10 * 1000

RECURSIVE BigOf(_)
\* The digits of the integer n >= 0.
BigOf(n) == IF n = 0 THEN << >> ELSE << n % Base >> \o BigOf(n \div Base)

RECURSIVE BigTimesFrom(_, _, _, _)
\* The digits of big * k from digit i on, given the carry into digit i.
BigTimesFrom(big, k, i, carry) ==
    IF i > Len(big) THEN BigOf(carry)
    ELSE << (big[i] * k + carry) % Base >>
           \o BigTimesFrom(big, k, i + 1, (big[i] * k + carry) \div Base)

\* big * k for an integer k >= 1
BigTimes(big, k) == BigTimesFrom(big, k, 1, 0)

RECURSIVE BigTimesPower(_, _, _)
\* big * k ** e
BigTimesPower(big, k, e) ==
    IF e = 0 THEN big ELSE BigTimesPower(BigTimes(big, k), k, e - 1)

\* a < b
BigLess(a, b) ==
    \/ Len(a) < Len(b)
    \/ /\ Len(a) = Len(b)
       /\ \E i \in 1..Len(a) : a[i] < b[i] /\ \A j \in (i + 1)..Len(a) : a[j] = b[j]

\* demand.py 31-41 and 111-117: the defaults of DemandConfig.from_config and
\* of _population_growth (an empty demand_forecasting section).
DefaultDemandConfig ==
    [ population_growth |->
        [ urban_density_threshold |-> 100, peri_urban_density_threshold |-> 50,
          urban_rate |-> 7, peri_urban_rate |-> 5, rural_rate |-> 3 ],
      baseline_consumption |-> 500,
      electrification_target_rate |-> 8,
      consumption_growth_rate |-> 1,
      population_scale |-> 5000 ]

\* Rows of the enriched dataset: population index 0 or 0.5 (thousandths),
\* a priority_score, an energy_need_score on either side of 40 and 60, a
\* rural or an urban building density.
EnrichedRows ==
    [ norm_pop : {0, 500}, priority_score : {30, 70},
      energy_need_score : {20, 50, 70}, building_density : {20, 120} ]

EnrichedFrames == UNION { [1..n -> EnrichedRows] : n \in 0..MaxDemandRows }

\* The datasets the stage reads: with or without a cluster_id column, with
\* an energy_need_score column or without one (the field of a row then holds
\* the default 0 of gdf.get("energy_need_score", 0), which the stage never
\* gets to use).
EnrichedDatasets ==
    { [ has_energy_need |-> TRUE, has_cluster_id |-> c, rows |-> rows ] :
      c \in BOOLEAN, rows \in EnrichedFrames }
      \cup { [ has_energy_need |-> FALSE, has_cluster_id |-> c,
               rows |-> [ i \in DOMAIN rows |->
                            [rows[i] EXCEPT !.energy_need_score = 0] ] ] :
             c \in BOOLEAN, rows \in EnrichedFrames }

\* The target years _forecast_demand is called with: the year before the
\* base year, the base year, the years just past it, and the year of run().
TargetYears == (BaseYear - 1)..(BaseYear + MaxYears) \cup {RunTargetYear}

\* demand.py 62-70: the norm_pop column, clipped to [0, 1], times the scale
EstimatePopulation(row, scale) ==
    (clamp(row.norm_pop, 0, IndexUnit) * scale) \div IndexUnit

\* demand.py 109-117
population_growth(density, growth) ==
    IF density >= growth.urban_density_threshold THEN growth.urban_rate
    ELSE IF density >= growth.peri_urban_density_threshold THEN growth.peri_urban_rate
    ELSE growth.rural_rate

YearsBehind(target_year) == Max2(BaseYear - target_year, 0)

\* demand.py 121: years = max(target_year - base_year, 0)
YearsAhead(target_year) == Max2(target_year - BaseYear, 0)

\* demand.py 128: estimated_population * (1 + growth_rate) ** years
FuturePopulation(pop, rate, years) ==
    BigTimesPower(BigTimesPower(BigOf(pop), RateUnit + rate, years),
                  RateUnit, Horizon - years)

\* demand.py 136: (1 + consumption_growth_rate) ** years
ConsumptionMultiplier(rate, years) ==
    BigTimesPower(BigTimesPower(BigOf(1), ConsumptionUnit + rate, years),
                  ConsumptionUnit, Horizon - years)

\* demand.py 131-134: future_electrified of every row, in units of
\* 1/(10 * n) for n rows: electrified + clip(target - mean, 0, 1), clipped.
FutureElectrified(rows, target_rate) ==
    LET n == Len(rows)
        k == Cardinality({ i \in 1..n : rows[i].electrification_status # "none" })
        adjustment == clamp(target_rate * n - 10 * k, 0, 10 * n)
    IN [ i \in 1..n |->
           clamp((IF rows[i].electrification_status # "none" THEN 10 * n ELSE 0)
                   + adjustment, 0, 10 * n) ]

\* demand.py 80-107: _baseline_demand.  Line 84 raises AttributeError when
\* the dataset has no energy_need_score column: gdf.get yields the default
\* 0, and the number pd.to_numeric returns for it has no fillna.
\* baseline_peak_demand_kw is the demand times the constant
\* 1000 / (8760 * max(load_factor, 0.01)) and is held in units of that
\* constant.
BaselineDemand ==
    /\ dpc = "loaded"
    /\ IF ~demand_gdf.has_energy_need
         THEN dpc' = "raised" /\ UNCHANGED demand_gdf
         ELSE
           /\ demand_gdf' =
                [ demand_gdf EXCEPT !.rows =
                    [ i \in DOMAIN demand_gdf.rows |->
                        LET row == demand_gdf.rows[i]
                            pop == EstimatePopulation(row, demand_config.population_scale)
                            need == row.energy_need_score
                            st == status_from_need(need)
                        IN [ norm_pop                 |-> row.norm_pop,
                             priority_score           |-> row.priority_score,
                             energy_need_score        |-> need,
                             building_density         |-> row.building_density,
                             estimated_population     |-> pop,
                             electrification_status   |-> st,
                             demand_per_household_kwh |-> household_demand(st, need),
                             baseline_demand_mwh_year |->
                                 baseline_demand_mwh_year(pop, st, need),
                             baseline_peak_demand_kw  |->
                                 baseline_demand_mwh_year(pop, st, need),
                             population               |-> << >>,
                             demand_mwh_year          |-> << >> ] ] ]
           /\ dpc' = "baseline"
    /\ UNCHANGED << demand_config, target_years >>
    /\ UNCHANGED notDemandVars

\* demand.py 119-147: _forecast_demand(gdf, target_year) adds the columns
\* population_<year>, demand_<year>_mwh_year and peak_demand_<year>_kw.
\* The demand is future_population * future_electrified *
\* baseline_consumption * (1 + consumption_growth_rate) ** years / 1000; it
\* is held as the three factors that vary, and the peak is the demand times
\* a constant.
ForecastDemand(target_year) ==
    /\ dpc \in {"baseline", "forecast"}
    /\ target_year \notin target_years
    /\ Cardinality(target_years) < MaxCalls
    /\ LET years == YearsAhead(target_year)
           electrified == FutureElectrified(demand_gdf.rows,
                                            demand_config.electrification_target_rate)
           multiplier ==
               ConsumptionMultiplier(demand_config.consumption_growth_rate, years)
       IN demand_gdf' =
            [ demand_gdf EXCEPT !.rows =
                [ i \in DOMAIN demand_gdf.rows |->
                    LET row == demand_gdf.rows[i]
                        rate == population_growth(row.building_density,
                                                  demand_config.population_growth)
                        future == FuturePopulation(row.estimated_population, rate, years)
                    IN [ row EXCEPT
                           !.population = (target_year :> future) @@ @,
                           !.demand_mwh_year =
                               (target_year :> << future, electrified[i], multiplier >>)
                                 @@ @ ] ] ]
    /\ target_years' = target_years \cup {target_year}
    /\ dpc' = "forecast"
    /\ UNCHANGED demand_config
    /\ UNCHANGED notDemandVars

\* demand.py 189: gdf = self._forecast_demand(gdf, target_year=2030)
RunForecast == dpc = "baseline" /\ ForecastDemand(RunTargetYear)

\* demand.py 55-57 (line 187 of run) and scoring.py 64-100: the path of the
\* scoring GeoJSON is looked up; when the file does not exist the scoring
\* stage is run: its configuration is read, and its input is loaded, which
\* raises FileNotFoundError without the input file and ValueError without a
\* geometry column.
LoadEnrichedClusters ==
    /\ dpc = "start"
    /\ dpc' =
         IF "scoring_output_geojson" \notin config.paths THEN "raised"
         ELSE IF disk["scoring_geojson"] # "absent" THEN "loaded"
         ELSE IF ~(ScoringKeys \subseteq config.paths) THEN "raised"
         ELSE IF ~input.exists \/ ~input.geometry THEN "raised"
         ELSE "scoring_write_geojson"
    /\ UNCHANGED << demand_config, demand_gdf, target_years >>
    /\ UNCHANGED notDemandVars

\* demand.py 59 in scoring.py 227-233: enriched.to_file(geojson_path)
EnrichedWriteGeojson ==
    /\ dpc = "scoring_write_geojson"
    /\ WriteFile("scoring_geojson")
    /\ dpc' = "scoring_write_csv"
    /\ UNCHANGED << demand_config, demand_gdf, target_years >>
    /\ UNCHANGED << runButFiles, scenario_files, k_definition >>
    /\ UNCHANGED << scenVars, apiVars, scoreVars, normVars >>

\* demand.py 59 in scoring.py 235-247: to_csv(csv_path); demand.py 60 then
\* reads the GeoJSON of the scoring stage.
EnrichedWriteCsv ==
    /\ dpc = "scoring_write_csv"
    /\ WriteFile("scoring_csv")
    /\ dpc' = "loaded"
    /\ UNCHANGED << demand_config, demand_gdf, target_years >>
    /\ UNCHANGED << runButFiles, scenario_files, k_definition >>
    /\ UNCHANGED << scenVars, apiVars, scoreVars, normVars >>

\* demand.py 149-157 (line 190 of run): the three output paths are looked
\* up, which raises KeyError when one is missing, and the demand GeoJSON is
\* written.
WriteOutputsGeojson ==
    /\ dpc = "forecast"
    /\ target_years = {RunTargetYear}
    /\ IF ~(DemandKeys \subseteq config.paths)
         THEN dpc' = "raised" /\ UNCHANGED disk
         ELSE WriteFile("demand_geojson") /\ dpc' = "write_csv"
    /\ UNCHANGED << demand_config, demand_gdf, target_years >>
    /\ UNCHANGED << runButFiles, scenario_files, k_definition >>
    /\ UNCHANGED << scenVars, apiVars, scoreVars, normVars >>

\* demand.py 159-173: the column selection raises KeyError when the dataset
\* has no cluster_id column; otherwise the demand CSV is written.
WriteOutputsCsv ==
    /\ dpc = "write_csv"
    /\ IF ~demand_gdf.has_cluster_id
         THEN dpc' = "raised" /\ UNCHANGED disk
         ELSE WriteFile("demand_csv") /\ dpc' = "write_summary"
    /\ UNCHANGED << demand_config, demand_gdf, target_years >>
    /\ UNCHANGED << runButFiles, scenario_files, k_definition >>
    /\ UNCHANGED << scenVars, apiVars, scoreVars, normVars >>

\* demand.py 175-184: summary_path.write_text; run() returns the totals
WriteOutputsSummary ==
    /\ dpc = "write_summary"
    /\ WriteFile("summary_json")
    /\ dpc' = "done"
    /\ UNCHANGED << demand_config, demand_gdf, target_years >>
    /\ UNCHANGED << runButFiles, scenario_files, k_definition >>
    /\ UNCHANGED << scenVars, apiVars, scoreVars, normVars >>

\* demand.py 186: run() is called.  demand_gdf is the dataset line 60 reads:
\* the content of the scoring GeoJSON, which exists ("prior") or does not
\* ("absent"); the scoring stage passes the columns of its input on, so the
\* input has the columns of the dataset.  The input is read only when the
\* scoring GeoJSON does not exist.  The configuration is well-formed:
\* __init__ has read it.
DemandStart ==
    /\ demand_config = DefaultDemandConfig
    /\ demand_gdf \in EnrichedDatasets
    /\ dpc = "start"
    /\ target_years = {}
    /\ config \in { c \in Configs : ~c.malformed }
    /\ disk \in { PriorDisk, [PriorDisk EXCEPT !["scoring_geojson"] = "absent"] }
    /\ input \in { d \in Inputs :
                    /\ d.dist_to_power_km
                    /\ d.cluster_id = demand_gdf.has_cluster_id
                    /\ d.energy_need_score = demand_gdf.has_energy_need
                    /\ disk["scoring_geojson"] # "absent" => d.exists /\ d.geometry
                    /\ ~d.exists => d.geometry }
    /\ n_definitions = 0
    /\ scenario_files = PriorScenarioFiles
    /\ rpc = "idle"
    /\ caller = "main"
    /\ k_definition = 0
    /\ failure = ""

InitDemand == DemandStart /\ ScenarioIdle /\ ApiIdle /\ ScoringIdle /\ NormIdle

\* demand.py 186-190: DemandForecastPipeline.run
NextDemand ==
    \/ LoadEnrichedClusters
    \/ EnrichedWriteGeojson
    \/ EnrichedWriteCsv
    \/ BaselineDemand
    \/ RunForecast
    \/ WriteOutputsGeojson
    \/ WriteOutputsCsv
    \/ WriteOutputsSummary

SpecDemand == InitDemand /\ [][NextDemand]_vars

\* _forecast_demand as a function of its target year: it is called on a
\* dataset that carries the baseline columns, with up to MaxCalls target
\* years out of TargetYears.  The forecast does not read priority_score:
\* one value of it is enough.
ForecastStart ==
    /\ demand_config = DefaultDemandConfig
    /\ demand_gdf \in EnrichedDatasets
    /\ demand_gdf.has_energy_need
    /\ demand_gdf.has_cluster_id
    /\ \A i \in DOMAIN demand_gdf.rows : demand_gdf.rows[i].priority_score = 30
    /\ dpc = "loaded"
    /\ target_years = {}

InitForecast == ForecastStart /\ ScenarioIdle /\ RunIdle /\ ApiIdle /\ ScoringIdle /\ NormIdle

NextForecast ==
    \/ BaselineDemand
    \/ \E target_year \in TargetYears : ForecastDemand(target_year)

SpecForecast == InitForecast /\ [][NextForecast]_vars

\* The stage is past _baseline_demand: the rows carry a status.
StatusAssigned ==
    \A i \in DOMAIN demand_gdf.rows :
      "electrification_status" \in DOMAIN demand_gdf.rows[i]

\* C13: in the demand stage a cluster's electrification_status is a
\* function of its priority_score alone: priority_score >= 60 gives "none",
\* 40 <= priority_score < 60 gives "partial", priority_score < 40 gives
\* "electrified"; two clusters with the same priority_score get the same
\* status.
StatusFromPriorityScore ==
    StatusAssigned =>
      /\ \A i \in DOMAIN demand_gdf.rows :
           LET score == demand_gdf.rows[i].priority_score
               st == demand_gdf.rows[i].electrification_status
           IN /\ score >= 60 => st = "none"
              /\ (score >= 40 /\ score < 60) => st = "partial"
              /\ score < 40 => st = "electrified"
      /\ \A i, j \in DOMAIN demand_gdf.rows :
           demand_gdf.rows[i].priority_score = demand_gdf.rows[j].priority_score
             => demand_gdf.rows[i].electrification_status
                  = demand_gdf.rows[j].electrification_status

\* What the stage does: the status follows energy_need_score.
StatusFromEnergyNeed ==
    StatusAssigned =>
      \A i \in DOMAIN demand_gdf.rows :
        LET need == demand_gdf.rows[i].energy_need_score
            st == demand_gdf.rows[i].electrification_status
        IN /\ need >= 60 => st = "none"
           /\ (need >= 40 /\ need < 60) => st = "partial"
           /\ need < 40 => st = "electrified"

\* run() forecasts once, for 2030.  It writes its files in the order of
\* the code: the two scoring files when the scoring GeoJSON did not exist,
\* then the demand GeoJSON, the demand CSV and the summary; and no other
\* file.
DemandWritesInOrder ==
    /\ target_years \subseteq {RunTargetYear}
    /\ dpc \in {"write_csv", "write_summary", "done"} => target_years = {RunTargetYear}
    /\ (disk["scoring_csv"] = "this_run")
         <=> (disk["scoring_geojson"] = "this_run" /\ dpc # "scoring_write_csv")
    /\ dpc \in {"loaded", "baseline", "forecast", "write_csv", "write_summary", "done"}
         => disk["scoring_geojson"] # "absent"
    /\ dpc \in {"write_csv", "write_summary", "done"} => disk["demand_geojson"] = "this_run"
    /\ disk["demand_geojson"] = "this_run" => target_years = {RunTargetYear}
    /\ (disk["demand_csv"] = "this_run") <=> dpc \in {"write_summary", "done"}
    /\ (disk["summary_json"] = "this_run") <=> dpc = "done"
    /\ disk["demand_csv"] = "this_run" => demand_gdf.has_cluster_id
    /\ disk["comparison_csv"] = "prior"

\* The scoring stage ran inside the load, and run() failed at the column
\* selection of line 159: the demand GeoJSON is rewritten, the CSV and the
\* summary are not.
DemandFailedAfterGeojson ==
    /\ dpc = "raised"
    /\ disk["scoring_csv"] = "this_run"
    /\ disk["demand_geojson"] = "this_run"
    /\ disk["demand_csv"] = "prior"
    /\ disk["summary_json"] = "prior"

\* run() is complete after a scoring run inside the load: five files are
\* rewritten.
DemandDoneAfterScoring ==
    /\ dpc = "done"
    /\ \A f \in OutputFiles : (disk[f] = "this_run") <=> f # "comparison_csv"

\* C15 as stated: for a fixed positive growth rate and a fixed cluster, for
\* any target years y1 < y2 the population projected to y2 is strictly
\* greater than the population projected to y1.
ProjectionStrictlyIncreasing ==
    \A i \in DOMAIN demand_gdf.rows :
      \A y1, y2 \in target_years :
        y1 < y2 => BigLess(demand_gdf.rows[i].population[y1],
                           demand_gdf.rows[i].population[y2])

\* C15, amended: for a fixed positive growth rate and a fixed cluster, for
\* any target years y1 < y2 the population projected to y2 is at least the
\* population projected to y1, and strictly greater when y2 is later than
\* the base year 2024 and the cluster's estimated population is positive;
\* it is the same for both when y2 <= 2024 or the population is 0.
ProjectionIncreasingPastBaseYear ==
    \A i \in DOMAIN demand_gdf.rows :
      \A y1, y2 \in target_years :
        y1 < y2 =>
          LET p1 == demand_gdf.rows[i].population[y1]
              p2 == demand_gdf.rows[i].population[y2]
              grows == y2 > BaseYear /\ demand_gdf.rows[i].estimated_population > 0
          IN /\ ~BigLess(p2, p1)
             /\ grows => BigLess(p1, p2)
             /\ ~grows => p2 = p1

\* Two target years past the base year, the later of them the year of
\* run(), have been projected for a cluster with people in it, and the
\* later projection is the larger.
ProjectionIncreasingPastBaseYearWitness ==
    \E i \in DOMAIN demand_gdf.rows :
      \E y1, y2 \in target_years :
        /\ BaseYear < y1
        /\ y1 < y2
        /\ y2 = RunTargetYear
        /\ demand_gdf.rows[i].estimated_population > 0
        /\ BigLess(demand_gdf.rows[i].population[y1],
                   demand_gdf.rows[i].population[y2])

\* ------------------------------------------------- normalize_to_ten alone
MaxLen == 3     \* length of the array normalize_to_ten is called with

\* Array elements: the special values, zero, and finite values of the
\* largest magnitude and of half of it.
Elements == {NaN, PosInf, 0 - FloatMax, 0, FloatMax \div 2, FloatMax}

Arrays == UNION { [1..n -> Elements] : n \in 0..MaxLen }

NormalizeCall ==
    /\ npc = "called"
    /\ normalized' = normalize_to_ten(values_arg, invert_arg)
    /\ npc' = "returned"
    /\ UNCHANGED << values_arg, invert_arg >>
    /\ UNCHANGED notNormVars

NormalizeStart ==
    /\ values_arg \in Arrays
    /\ invert_arg \in BOOLEAN
    /\ npc = "called"
    /\ normalized = << >>

InitNormalize ==
    NormalizeStart /\ ScenarioIdle /\ RunIdle /\ ApiIdle /\ ScoringIdle /\ DemandIdle

NextNormalize == NormalizeCall

SpecNormalize == InitNormalize /\ [][NextNormalize]_vars

\* The output has the length of the input (an empty input gives an empty
\* output), and an input that is one value in every position gives 5.0 in
\* every position.
NormalizeShape ==
    npc = "returned" =>
      /\ Len(normalized) = Len(values_arg)
      /\ (\A i, j \in DOMAIN values_arg : values_arg[i] = values_arg[j])
           => \A i \in DOMAIN normalized : normalized[i] = 5 * ScoreUnit

\* C11: for every numeric input column, with or without invert, every
\* element of the output of normalize_to_ten lies in [0, 10]; an input
\* whose values are all equal maps to 5.0 in every position; an empty input
\* maps to an empty output; the output has the length of the input.
NormalizeInRange ==
    npc = "returned" =>
      /\ NormalizeShape
      /\ \A i \in DOMAIN normalized :
           normalized[i] >= 0 /\ normalized[i] <= 10 * ScoreUnit

\* --------------------------------------------------------- main.py: steps
\* main.py 116-135: POST /clusters/recalculate.  Custom weights are refused
\* (400), a dry run executes nothing, otherwise run_scoring_job is added to
\* the background tasks of the request.
Recalculate(j, weights, dry_run) ==
    /\ jobs[j].at = "none"
    /\ jobs' = [jobs EXCEPT ![j].at =
                  IF weights \/ dry_run THEN "not_run" ELSE "queued"]
    /\ UNCHANGED << status, lock, clock, written, reader, response >>
    /\ UNCHANGED notApiVars

\* main.py 70-81: the background task starts: `started` is taken and the
\* pipeline subprocess is launched.  Nothing is acquired before.
JobStart(j) ==
    /\ jobs[j].at = "queued"
    /\ clock' = clock + 1
    /\ jobs' = [jobs EXCEPT ![j].at = "running", ![j].started = clock + 1,
                            ![j].child = 0]
    /\ UNCHANGED << status, lock, written, reader, response >>
    /\ UNCHANGED notApiVars

\* main.py 75-81: inside subprocess.run the child process runs
\* run_all.main, which rewrites the output files one after the other
\* (RunWrites, then scenario.py 162 and 169).  This is the child's next
\* write; the job holds no lock meanwhile and `status` is as it was.  A
\* rewritten file is told apart from its prior content only, not by the
\* job whose child wrote it.
JobChildWrite(j) ==
    /\ jobs[j].at = "running"
    /\ jobs[j].child < ChildWrites(n_definitions)
    /\ LET w == jobs[j].child + 1
       IN IF w <= Len(RunWrites)
            THEN WriteFile(RunWrites[w]) /\ UNCHANGED scenario_files
          ELSE IF w <= Len(RunWrites) + n_definitions
            THEN /\ scenario_files' =
                      [scenario_files EXCEPT ![w - Len(RunWrites)] = "this_run"]
                 /\ UNCHANGED disk
          ELSE WriteFile("comparison_csv") /\ UNCHANGED scenario_files
    /\ jobs' = [jobs EXCEPT ![j].child = @ + 1]
    /\ UNCHANGED << status, lock, clock, written, reader, response >>
    /\ UNCHANGED << runButFiles, k_definition >>
    /\ UNCHANGED << scenVars, scoreVars, normVars, demandVars >>

\* main.py 75-82: subprocess.run returns when the child has made every
\* write of a run, or raises CalledProcessError when the child has failed,
\* which it can after the writes of FailurePoints.
JobExit(j, outcome) ==
    /\ jobs[j].at = "running"
    /\ IF outcome = "nonzero"
         THEN jobs[j].child \in FailurePoints(n_definitions)
         ELSE jobs[j].child = ChildWrites(n_definitions)
    /\ jobs' = [jobs EXCEPT ![j].at = "exited", ![j].outcome = outcome]
    /\ UNCHANGED << status, lock, clock, written, reader, response >>
    /\ UNCHANGED notApiVars

\* main.py 83 / 91: with lock
JobAcquire(j) ==
    /\ jobs[j].at = "exited"
    /\ lock = 0
    /\ lock' = j
    /\ jobs' = [jobs EXCEPT ![j].at = "locked"]
    /\ UNCHANGED << status, clock, written, reader, response >>
    /\ UNCHANGED notApiVars

\* main.py 84-88 / 92-96: the JobStatus object a job builds
JobRecord(job) ==
    [ last_run    |-> job.started,
      last_status |-> IF job.outcome = "nonzero" THEN "failed" ELSE "completed",
      last_error  |-> IF job.outcome = "ok" THEN "None" ELSE "stderr" ]

\* main.py 84 / 92: status = JobStatus(...), one rebinding of the global
JobPublish(j) ==
    /\ jobs[j].at = "locked"
    /\ status' = JobRecord(jobs[j])
    /\ written' = written \cup { JobRecord(jobs[j]) }
    /\ jobs' = [jobs EXCEPT ![j].at = "published"]
    /\ UNCHANGED << lock, clock, reader, response >>
    /\ UNCHANGED notApiVars

\* main.py 89 / 96: the with block ends
JobRelease(j) ==
    /\ jobs[j].at = "published"
    /\ lock' = 0
    /\ jobs' = [jobs EXCEPT ![j].at = "done"]
    /\ UNCHANGED << status, clock, written, reader, response >>
    /\ UNCHANGED notApiVars

\* main.py 138-140: GET /status returns the object `status` is bound to
GetStatus ==
    /\ reader.req = "none"
    /\ response' = [ kind |-> "status", last_run |-> status.last_run,
                     last_status |-> status.last_status,
                     last_error |-> status.last_error ]
    /\ UNCHANGED << status, lock, jobs, clock, written, reader >>
    /\ UNCHANGED notApiVars

\* main.py 104-106 / 186-194: GET /clusters or GET /summary starts; the
\* handler takes no lock.
BeginRead(req) ==
    /\ reader.req = "none"
    /\ reader' = [NoReader EXCEPT !.req = req, !.at = 1]
    /\ UNCHANGED << status, lock, jobs, clock, written, response >>
    /\ UNCHANGED notApiVars

\* main.py 109 / 198: the test `if status.last_run` loads the global
ReadTestLastRun ==
    /\ reader.at = 1
    /\ IF status.last_run # 0
         THEN reader' = [reader EXCEPT !.at = 2] /\ UNCHANGED response
       ELSE IF reader.req = "clusters"
         THEN /\ response' = [ kind |-> "clusters", generated_at |-> 0 ]
              /\ reader' = NoReader
       ELSE reader' = [reader EXCEPT !.at = 3, !.last_run = 0] /\ UNCHANGED response
    /\ UNCHANGED << status, lock, jobs, clock, written >>
    /\ UNCHANGED notApiVars

\* main.py 109 / 198: status.last_run.isoformat() loads the global again
ReadLastRun ==
    /\ reader.at = 2
    /\ IF reader.req = "clusters"
         THEN /\ response' = [ kind |-> "clusters", generated_at |-> status.last_run ]
              /\ reader' = NoReader
         ELSE /\ reader' = [reader EXCEPT !.at = 3, !.last_run = status.last_run]
              /\ UNCHANGED response
    /\ UNCHANGED << status, lock, jobs, clock, written >>
    /\ UNCHANGED notApiVars

\* main.py 199: status.last_status loads the global again
ReadLastStatus ==
    /\ reader.at = 3
    /\ reader' = [reader EXCEPT !.at = 4, !.last_status = status.last_status]
    /\ UNCHANGED << status, lock, jobs, clock, written, response >>
    /\ UNCHANGED notApiVars

\* main.py 200-203: status.last_error loads the global again; the response
ReadLastError ==
    /\ reader.at = 4
    /\ response' = [ kind |-> "summary", last_run |-> reader.last_run,
                     last_status |-> reader.last_status,
                     last_error |-> status.last_error ]
    /\ reader' = NoReader
    /\ UNCHANGED << status, lock, jobs, clock, written >>
    /\ UNCHANGED notApiVars

\* The backend has started; the configuration the pipeline subprocess will
\* read holds up to MaxDefinitions scenario definitions.
InitApi ==
    /\ ApiIdle
    /\ \E n \in 0..MaxDefinitions : RunAtRest(n)
    /\ ScenarioIdle /\ ScoringIdle /\ OthersIdle

NextApi ==
    \/ \E j \in Jobs : \E weights, dry_run \in BOOLEAN : Recalculate(j, weights, dry_run)
    \/ \E j \in Jobs : JobStart(j)
    \/ \E j \in Jobs : JobChildWrite(j)
    \/ \E j \in Jobs : \E outcome \in Outcomes : JobExit(j, outcome)
    \/ \E j \in Jobs : JobAcquire(j)
    \/ \E j \in Jobs : JobPublish(j)
    \/ \E j \in Jobs : JobRelease(j)
    \/ GetStatus
    \/ \E req \in {"summary", "clusters"} : BeginRead(req)
    \/ ReadTestLastRun
    \/ ReadLastRun
    \/ ReadLastStatus
    \/ ReadLastError

SpecApi == InitApi /\ [][NextApi]_vars

\* C6: at most one pipeline execution is in flight at any time: whatever
\* the interleaving of POST /clusters/recalculate requests, no two
\* run_scoring_job executions have their pipeline subprocess running at
\* the same time.
AtMostOneExecution ==
    Cardinality({ j \in Jobs : jobs[j].at = "running" }) <= 1

\* C7: a status update cannot race with a status read: every response of
\* GET /status and GET /summary carries a (last_run, last_status,
\* last_error) triple that is the initial empty record or the record one
\* single job wrote, never a mixture of two records; the generated_at of
\* GET /clusters is the last_run of one of them.
ReadsSeeOneRecord ==
    /\ response.kind \in {"status", "summary"} =>
          [ last_run |-> response.last_run,
            last_status |-> response.last_status,
            last_error |-> response.last_error ] \in written \cup {InitialStatus}
    /\ response.kind = "clusters" =>
          \E r \in written \cup {InitialStatus} : r.last_run = response.generated_at

\* ------------------------------------------------- ScenarioPipeline.run
\* DataFrame.copy() with deep=False semantics: the copy shares the data.
DataFrameCopyShared(obj) == obj

\* DataFrame.copy(): a new object, distinct from `obj`, holding equal rows.
\* run() keeps at most one such object reachable besides the baseline (the
\* previous scenario_data is dropped when the name is rebound), so one slot
\* stands for "the newest copy".
DataFrameCopy(obj) == "scenario"

\* scenario.py 144
LoadBaseline ==
    /\ pc = "load"
    /\ frames' = [frames EXCEPT !["baseline"] = demand_file]
    /\ pc' = "loop"
    /\ UNCHANGED << demand_file, scenario_data, applied,
                    data_arg, intervention, idx, impacts >>
    /\ UNCHANGED notScenVars

\* scenario.py 149-150: next definition; scenario_data = baseline.copy()
StartScenario ==
    /\ pc = "loop"
    /\ k_definition < n_definitions
    /\ LET new == DataFrameCopy("baseline")
       IN /\ frames' = [frames EXCEPT ![new] = frames["baseline"]]
          /\ scenario_data' = new
    /\ applied' = 0
    /\ impacts' = NoImpacts
    /\ pc' = "interventions"
    /\ UNCHANGED << demand_file, data_arg, intervention, idx >>
    /\ UNCHANGED notScenVars

\* scenario.py 151-152: scenario_data = self.apply_intervention(scenario_data, iv)
ApplyIntervention(iv) ==
    /\ pc = "interventions"
    /\ applied < MaxInterventions
    /\ LET result == DataFrameCopy(scenario_data)
           data   == frames[scenario_data]
       IN /\ frames' = [frames EXCEPT ![result] = apply_intervention(data, iv)]
          /\ scenario_data' = result
          /\ data_arg' = data
          /\ idx' = TargetIndex(data, iv)
    /\ intervention' = iv
    /\ applied' = applied + 1
    /\ UNCHANGED << demand_file, pc, impacts >>
    /\ UNCHANGED notScenVars

\* scenario.py 154-162: impacts of the finished scenario, appended to
\* scenarios (k_definition is their number); scenario_data is written to
\* the GeoJSON file named after the definition.
FinishScenario ==
    /\ pc = "interventions"
    /\ Len(frames[scenario_data]) > 0
    /\ impacts' = calculate_impacts(frames["baseline"], frames[scenario_data])
    /\ scenario_files' = [scenario_files EXCEPT ![k_definition + 1] = "this_run"]
    /\ k_definition' = k_definition + 1
    /\ pc' = "loop"
    /\ UNCHANGED << demand_file, frames, scenario_data, applied, data_arg,
                    intervention, idx >>
    /\ UNCHANGED << runButFiles, disk >>
    /\ UNCHANGED << apiVars, scoreVars, normVars, demandVars >>

\* scenario.py 139: len(scenario) = 0 raises ZeroDivisionError out of run()
FinishScenarioRaises ==
    /\ pc = "interventions"
    /\ Len(frames[scenario_data]) = 0
    /\ pc' = "raised"
    /\ UNCHANGED << demand_file, frames, scenario_data, applied,
                    data_arg, intervention, idx, impacts >>
    /\ UNCHANGED notScenVars

\* scenario.py 164-171: the loop is over; the comparison table is written
\* when scenarios is not empty; return
ReturnScenarios ==
    /\ pc = "loop"
    /\ k_definition = n_definitions
    /\ IF k_definition > 0 THEN WriteFile("comparison_csv") ELSE UNCHANGED disk
    /\ pc' = "done"
    /\ UNCHANGED << demand_file, frames, scenario_data, applied,
                    data_arg, intervention, idx, impacts >>
    /\ UNCHANGED << runButFiles, scenario_files, k_definition >>
    /\ UNCHANGED << apiVars, scoreVars, normVars, demandVars >>

ScenarioStart ==
    /\ demand_file \in Baselines
    /\ frames = [ o \in {"baseline", "scenario"} |-> << >> ]
    /\ scenario_data = "scenario"
    /\ pc = "load"
    /\ applied = 0
    /\ data_arg = << >>
    /\ intervention = NoIntervention
    /\ idx = {}
    /\ impacts = NoImpacts

\* run() is called on a configuration of up to MaxDefinitions definitions.
InitScenario ==
    /\ ScenarioStart
    /\ \E n \in 0..MaxDefinitions : RunAtRest(n)
    /\ ApiIdle /\ ScoringIdle /\ OthersIdle

NextScenario ==
    \/ LoadBaseline
    \/ StartScenario
    \/ \E iv \in Interventions : ApplyIntervention(iv)
    \/ FinishScenario
    \/ FinishScenarioRaises
    \/ ReturnScenarios

SpecScenario == InitScenario /\ [][NextScenario]_vars

\* ------------------------------------------------------ claims: scenarios
\* The rows of the object scenario_data is bound to.
ScenarioRows == frames[scenario_data]

\* C1: in ScenarioPipeline.run the baseline loaded by load_baseline is never
\* mutated: once loaded, every field of every baseline row equals its value
\* at load time, whatever scenarios and interventions have run; and every
\* scenario starts on an object distinct from the baseline whose rows equal
\* the baseline's, so that its first intervention is applied to rows equal
\* to the baseline (no scenario sees another scenario's result).
BaselineNeverMutated ==
    /\ pc # "load" => frames["baseline"] = demand_file
    /\ (pc = "interventions" /\ applied = 0) =>
          /\ scenario_data # "baseline"
          /\ ScenarioRows = demand_file
    /\ applied = 1 => data_arg = demand_file

\* A later scenario has started on rows equal to the baseline although the
\* scenario before it changed its own copy.
BaselineNeverMutatedWitness ==
    /\ pc = "interventions"
    /\ applied = 0
    /\ intervention # NoIntervention
    /\ apply_intervention(data_arg, intervention) # demand_file
    /\ ScenarioRows = demand_file
    /\ frames["baseline"] = demand_file

IsGridTopPriority ==
    /\ applied >= 1
    /\ intervention.type = "grid_extension"
    /\ intervention.target = "top_priority"

\* C2: grid_extension with count = N and target = "top_priority" changes
\* exactly the N rows with the highest priority_score (all rows when there
\* are fewer than N): each ends "electrified", with solution
\* "grid_extension" and a demand of exactly 1.5 times its previous value;
\* every other row keeps its status, solution and demand.  For the scores
\* [80, 50, 20] and count = 1 only the row scoring 80 changes.
GridExtensionTopN ==
    IsGridTopPriority =>
      LET pre  == data_arg
          post == ScenarioRows
          all  == DOMAIN pre
      IN /\ DOMAIN post = all
         /\ \E S \in SUBSET all :
              /\ Cardinality(S) = Min2(intervention.count, Len(pre))
              /\ \A i \in S, j \in all \ S :
                    pre[i].priority_score >= pre[j].priority_score
              /\ \A i \in S :
                    /\ post[i].electrification_status = "electrified"
                    /\ post[i].recommended_solution = "grid_extension"
                    /\ post[i].baseline_demand_mwh_year * 10
                         = pre[i].baseline_demand_mwh_year * 15
              /\ \A j \in all \ S :
                    /\ post[j].electrification_status = pre[j].electrification_status
                    /\ post[j].recommended_solution = pre[j].recommended_solution
                    /\ post[j].baseline_demand_mwh_year = pre[j].baseline_demand_mwh_year
         /\ ( /\ Len(pre) = 3
              /\ [ i \in 1..3 |-> pre[i].priority_score ] = << 80, 50, 20 >>
              /\ intervention.count = 1 ) =>
              /\ post[1].electrification_status = "electrified"
              /\ post[1].recommended_solution = "grid_extension"
              /\ post[1].baseline_demand_mwh_year * 10
                   = pre[1].baseline_demand_mwh_year * 15
              /\ \A j \in {2, 3} :
                    /\ post[j].electrification_status = pre[j].electrification_status
                    /\ post[j].recommended_solution = pre[j].recommended_solution
                    /\ post[j].baseline_demand_mwh_year = pre[j].baseline_demand_mwh_year

\* The end-to-end example: scores [80, 50, 20], distances [2, 10, 40],
\* grid_extension(count = 1, target = "top_priority") has been applied to
\* the untouched baseline and the first row is now electrified.
GridExtensionTopNWitness ==
    /\ IsGridTopPriority
    /\ applied = 1
    /\ intervention.count = 1
    /\ Len(data_arg) = 3
    /\ [ i \in 1..3 |-> data_arg[i].priority_score ] = << 80, 50, 20 >>
    /\ [ i \in 1..3 |-> data_arg[i].dist_to_power_km ] = << 2, 10, 40 >>
    /\ data_arg[1].electrification_status = "none"
    /\ ScenarioRows[1].electrification_status = "electrified"
    /\ ScenarioRows[1].baseline_demand_mwh_year > data_arg[1].baseline_demand_mwh_year

\* The rows among `labels` that fewer than n rows precede, a row preceding
\* another when its key is better or its key is equal and it comes earlier
\* in row order.
FirstInRowOrder(data, labels, col, n, largest) ==
    { i \in labels :
        Cardinality({ j \in labels :
            \/ (IF largest THEN data[j][col] > data[i][col]
                           ELSE data[j][col] < data[i][col])
            \/ data[j][col] = data[i][col] /\ j < i }) < n }

\* C3: top-N selection is deterministic under ties: in grid_extension (by
\* highest priority_score or smallest dist_to_power_km) and in
\* mini_grid_deployment, of the rows that share the key value at the
\* cut-off the ones that come first in row order are the ones selected.
TopNTiesByRowOrder ==
    applied >= 1 =>
      /\ (intervention.type = "grid_extension" /\ intervention.target = "top_priority")
           => idx = FirstInRowOrder(data_arg, DOMAIN data_arg, "priority_score",
                                    intervention.count, TRUE)
      /\ (intervention.type = "grid_extension" /\ intervention.target = "nearest_grid")
           => idx = FirstInRowOrder(data_arg, DOMAIN data_arg, "dist_to_power_km",
                                    intervention.count, FALSE)
      /\ intervention.type = "mini_grid_deployment"
           => idx = FirstInRowOrder(data_arg,
                      { i \in DOMAIN data_arg :
                          \/ ContainsMini(data_arg[i].recommended_solution)
                          \/ data_arg[i].electrification_status = "none" },
                      "priority_score", intervention.count, TRUE)

\* A tie at the cut-off: a selected row and a later row that was not
\* selected share the priority_score.
TopNTiesByRowOrderWitness ==
    /\ IsGridTopPriority
    /\ \E i \in idx : \E j \in (DOMAIN data_arg) \ idx :
          /\ data_arg[i].priority_score = data_arg[j].priority_score
          /\ i < j
    /\ \A i \in DOMAIN data_arg :
          (i \in idx) <=> (ScenarioRows[i].scenario_tag = "grid_extension")

RECURSIVE NonePopulation(_, _)
\* Sum of estimated_population over the rows of status "none", row by row.
NonePopulation(data, n) ==
    IF n = 0 THEN 0
    ELSE NonePopulation(data, n - 1)
           + (IF data[n].electrification_status = "none"
                THEN data[n].estimated_population ELSE 0)

RECURSIVE NoneCount(_, _)
NoneCount(data, n) ==
    IF n = 0 THEN 0
    ELSE NoneCount(data, n - 1)
           + (IF data[n].electrification_status = "none" THEN 1 ELSE 0)

\* C4: for every baseline and every scenario dataset that a sequence of
\* interventions reaches, calculate_impacts returns people_electrified >= 0
\* and settlements_connected >= 0, each equal to
\* max(baseline value - scenario value, 0) over the rows of status "none".
ImpactsNeverNegative ==
    impacts # NoImpacts =>
      LET b == frames["baseline"]
          s == ScenarioRows
          people == NonePopulation(b, Len(b)) - NonePopulation(s, Len(s))
          settlements == NoneCount(b, Len(b)) - NoneCount(s, Len(s))
      IN /\ impacts.people_electrified >= 0
         /\ impacts.settlements_connected >= 0
         /\ impacts.people_electrified = (IF people > 0 THEN people ELSE 0)
         /\ impacts.settlements_connected = (IF settlements > 0 THEN settlements ELSE 0)

\* population_growth without electrification: the unelectrified population
\* of the scenario exceeds the baseline's and the reported value is 0.
ImpactsNeverNegativeWitness ==
    /\ impacts # NoImpacts
    /\ intervention.type = "population_growth"
    /\ NonePopulation(ScenarioRows, Len(ScenarioRows))
         > NonePopulation(frames["baseline"], Len(frames["baseline"]))
    /\ impacts.people_electrified = 0

\* C14: impact accounting is total: calculate_impacts returns defined
\* values for every baseline/scenario pair, a dataset with zero clusters
\* included, and never raises because of an empty input: run() is never
\* left by an exception of calculate_impacts.
ImpactAccountingTotal ==
    /\ pc # "raised"
    /\ (pc \in {"loop", "done"} /\ k_definition >= 1) => impacts # NoImpacts

\* The last intervention applied was a mini_grid_deployment.
IsMiniGrid ==
    /\ applied >= 1
    /\ intervention.type = "mini_grid_deployment"

\* The rows mini_grid_deployment may select from, read off the rows.
MiniGridCandidates(data) ==
    { i \in DOMAIN data :
        \/ data[i].recommended_solution
             \in {"mini_grid", "mini_grid_hybrid", "mini_grid_solar"}
        \/ data[i].electrification_status = "none" }

\* C16: mini_grid_deployment with count = N selects only among the rows
\* whose current recommended_solution contains "mini" or whose current
\* status is "none", takes the N of them with the highest priority_score
\* (all of them when there are fewer than N), and sets each one's status
\* to "partial", its solution to "mini_grid" and its demand to 1.3 times
\* the previous value; every other row keeps its status, solution and
\* demand.
MiniGridTopNOfSuitable ==
    IsMiniGrid =>
      LET pre  == data_arg
          post == ScenarioRows
          all  == DOMAIN pre
          cand == MiniGridCandidates(pre)
      IN /\ DOMAIN post = all
         /\ \E S \in SUBSET cand :
              /\ Cardinality(S) = Min2(intervention.count, Cardinality(cand))
              /\ \A i \in S, j \in cand \ S :
                    pre[i].priority_score >= pre[j].priority_score
              /\ \A i \in S :
                    /\ post[i].electrification_status = "partial"
                    /\ post[i].recommended_solution = "mini_grid"
                    /\ post[i].baseline_demand_mwh_year * 10
                         = pre[i].baseline_demand_mwh_year * 13
              /\ \A j \in all \ S :
                    /\ post[j].electrification_status = pre[j].electrification_status
                    /\ post[j].recommended_solution = pre[j].recommended_solution
                    /\ post[j].baseline_demand_mwh_year = pre[j].baseline_demand_mwh_year

\* A mini_grid_deployment has passed over a row that is not a candidate
\* although its priority_score is higher than that of a row it changed.
MiniGridTopNOfSuitableWitness ==
    /\ IsMiniGrid
    /\ intervention.count >= 1
    /\ \E i, j \in DOMAIN data_arg :
          /\ i \notin MiniGridCandidates(data_arg)
          /\ j \in MiniGridCandidates(data_arg)
          /\ data_arg[i].priority_score > data_arg[j].priority_score
          /\ ScenarioRows[i] = data_arg[i]
          /\ ScenarioRows[j].electrification_status = "partial"
          /\ ScenarioRows[j].recommended_solution = "mini_grid"
          /\ data_arg[j].recommended_solution # "mini_grid"

\* C17: within a scenario, after any sequence of interventions, the number
\* of rows with status "none" never exceeds the number in the baseline (no
\* intervention sets a status to "none"), so settlements_connected is the
\* exact baseline-minus-scenario count: the floor at 0 never decides it.
NoneCountNeverGrows ==
    LET b == frames["baseline"]
        s == ScenarioRows
    IN /\ pc \in {"interventions", "loop", "done"} =>
            NoneCount(s, Len(s)) <= NoneCount(b, Len(b))
       /\ applied >= 1 =>
            \A i \in DOMAIN data_arg :
               s[i].electrification_status = "none"
                 => data_arg[i].electrification_status = "none"
       /\ impacts # NoImpacts =>
            impacts.settlements_connected = NoneCount(b, Len(b)) - NoneCount(s, Len(s))

\* Two interventions have been applied, rows have left status "none", and
\* the reported settlements_connected is that positive difference.
NoneCountNeverGrowsWitness ==
    /\ impacts # NoImpacts
    /\ applied = MaxInterventions
    /\ NoneCount(ScenarioRows, Len(ScenarioRows))
         < NoneCount(frames["baseline"], Len(frames["baseline"]))
    /\ impacts.settlements_connected >= 1
    /\ \E i \in DOMAIN data_arg :
          data_arg[i].electrification_status # ScenarioRows[i].electrification_status

\* Every factor applied so far was exact in the unit 1/Scale.
ExactArithmetic ==
    applied >= 1 =>
      \A i \in DOMAIN data_arg :
        /\ intervention.type = "population_growth" =>
             ScenarioRows[i].estimated_population * 10
               = data_arg[i].estimated_population * (10 + intervention.rate10)
        /\ intervention.type \in {"population_growth", "demand_increase"} =>
             ScenarioRows[i].baseline_demand_mwh_year * 10
               = data_arg[i].baseline_demand_mwh_year * (10 + intervention.rate10)
        /\ (intervention.type = "mini_grid_deployment" /\ i \in idx) =>
             ScenarioRows[i].baseline_demand_mwh_year * 10
               = data_arg[i].baseline_demand_mwh_year * 13

====
